---- MODULE Spec2Model ----
(***************************************************************************)
(* A model of the Janus SkyWay IoT plugin (plugins/janus_skywayiot.c):     *)
(* the session registry and its deferred-free list, the watchdog that      *)
(* reclaims destroyed sessions, the asynchronous control-message queue     *)
(* with its single worker thread, and plugin shutdown.                     *)
(*                                                                         *)
(* Threads of the program and how they appear here:                        *)
(*   - gateway threads calling the plugin's callbacks (create_session,     *)
(*     destroy_session, handle_message): one action per critical step;     *)
(*     create_session and handle_message, which test the flags and act     *)
(*     later, are split at that point, so that shutdown can interleave;    *)
(*     destroy_session is one step, its flag test and its critical         *)
(*     section taken together;                                             *)
(*   - the handler thread (janus_skywayiot_handler): program counter hpc;  *)
(*   - the watchdog thread (janus_skywayiot_watchdog): program counter     *)
(*     wpc, a whole pass being one step since it runs under               *)
(*     sessions_mutex with one reading of the clock;                       *)
(*   - the thread calling janus_skywayiot_destroy: program counter dpc.    *)
(*                                                                         *)
(* The gateway is assumed to use the plugin API as the Janus core does:    *)
(* create_session is called once per handle and returns before any other   *)
(* callback for that handle starts; destroy_session is called for a handle *)
(* only while its session record is still allocated.                       *)
(***************************************************************************)
EXTENDS Integers, Sequences, FiniteSets, TLC

\* ------------------------------------------------------------------------
\* Bounds of the model
\* ------------------------------------------------------------------------

\* Total number of control requests that reach the queue.
MaxMsgs == 2
\* The monotonic clock, in seconds, runs from 1 to MaxTime.
MaxTime == 6

\* The gateway handles (janus_plugin_session objects) that may attach.
Handles == {1, 2}
Txns == 1..MaxMsgs

\* ------------------------------------------------------------------------
\* Program constants
\* ------------------------------------------------------------------------

JANUS_SKYWAYIOT_ERROR_NO_MESSAGE == 411
JANUS_SKYWAYIOT_ERROR_INVALID_JSON == 412
JANUS_SKYWAYIOT_ERROR_INVALID_ELEMENT == 413
\* 5*G_USEC_PER_SEC, in seconds.
GraceInterval == 5

\* ------------------------------------------------------------------------
\* JSON values (jansson): a type tag and, for integers, the value
\* ------------------------------------------------------------------------

JAbsent == [t |-> "absent", v |-> 0]
JTrue == [t |-> "true", v |-> 0]
JFalse == [t |-> "false", v |-> 0]
JString == [t |-> "string", v |-> 0]
JInt(n) == [t |-> "int", v |-> n]

json_present(x) == x.t # "absent"
json_is_boolean(x) == x.t \in {"true", "false"}
json_is_true(x) == x.t = "true"
json_is_integer(x) == x.t = "int"
json_is_string(x) == x.t = "string"
json_integer_value(x) == IF x.t = "int" THEN x.v ELSE 0

\* A request body: NULL, a JSON value that is no object, or an object with
\* the attributes the handler looks at.
NullBody ==
    [kind |-> "null", audio |-> JAbsent, video |-> JAbsent, bitrate |-> JAbsent,
     record |-> JAbsent, filename |-> JAbsent]
NotObjectBody == [NullBody EXCEPT !.kind = "notobj"]
EmptyObject == [NullBody EXCEPT !.kind = "object"]

\* A JSEP payload: msg->jsep may be NULL; type and sdp are the strings
\* json_string_value() returns ("" stands for NULL). An SDP is a sequence of
\* tokens, the substrings the handler searches for and replaces.
NoJsep == [type |-> "", has_sdp |-> FALSE, sdp |-> <<>>]

\* ------------------------------------------------------------------------
\* Sessions
\* ------------------------------------------------------------------------

\* The record create_session allocates (g_malloc0, then the assignments).
\* mem is the state of the allocation: "none" before create_session,
\* "alloc" once allocated, "freed" after the watchdog's g_free.
NewSession ==
    [mem |-> "alloc",
     has_audio |-> FALSE, has_video |-> FALSE, has_data |-> FALSE,
     audio_active |-> TRUE, video_active |-> TRUE,
     bitrate |-> 0,
     arc |-> FALSE, vrc |-> FALSE, drc |-> FALSE,
     slowlink_count |-> 0, hangingup |-> 0, destroyed |-> 0]
NoSession == [NewSession EXCEPT !.mem = "none"]

\* ------------------------------------------------------------------------
\* Messages of the control queue
\* ------------------------------------------------------------------------

Msg(h, t, b, j) == [exit |-> FALSE, handle |-> h, txn |-> t, body |-> b, jsep |-> j]
exit_message == [exit |-> TRUE, handle |-> 0, txn |-> 0, body |-> NullBody, jsep |-> NoJsep]
NoMsg == [exit |-> FALSE, handle |-> 0, txn |-> 0, body |-> NullBody, jsep |-> NoJsep]

\* ------------------------------------------------------------------------
\* What the plugin hands to the gateway: gateway->relay_rtcp and
\* gateway->push_event calls, in the order they are made. txn = 0 is a NULL
\* transaction. req is not part of the call: it names the request the
\* handler thread was serving when it made the call.
\* ------------------------------------------------------------------------

Rtcp(h, kind, br, r) ==
    [type |-> "rtcp", handle |-> h, kind |-> kind, bitrate |-> br,
     txn |-> 0, req |-> r, code |-> 0, cause |-> "", jsep |-> NoJsep]
Event(h, t, r, result, code, cause, j) ==
    [type |-> "event", handle |-> h, kind |-> result, bitrate |-> 0,
     txn |-> t, req |-> r, code |-> code, cause |-> cause, jsep |-> j]

\* ------------------------------------------------------------------------
\* SDP rewriting of the handler (strstr / janus_string_replace on tokens)
\* ------------------------------------------------------------------------

Contains(sdp, tok) == \E i \in 1..Len(sdp) : sdp[i] = tok

RECURSIVE janus_string_replace(_, _, _)
janus_string_replace(sdp, from, to) ==
    IF sdp = <<>> THEN <<>>
    ELSE LET rest == janus_string_replace(Tail(sdp), from, to)
         IN  IF Head(sdp) # from THEN <<Head(sdp)>> \o rest
             ELSE IF to = "" THEN rest
             ELSE <<to>> \o rest

RECURSIVE ReplaceAll(_, _)
ReplaceAll(sdp, froms) ==
    IF froms = <<>> THEN sdp
    ELSE ReplaceAll(janus_string_replace(sdp, Head(froms), ""), Tail(froms))

\* The tokens that contain the substring "ulpfec".
UlpfecTokens == {"a=rtpmap:117 ulpfec/90000", "a=rtpmap:120 ulpfec/90000"}
\* The strings the handler deletes when the SDP mentions ulpfec, in order.
FecStrings ==
    <<"a=rtpmap:116 red/90000", "a=rtpmap:117 ulpfec/90000",
      "a=rtpmap:96 rtx/90000", "a=fmtp:96 apt=100",
      "a=rtpmap:97 rtx/90000", "a=fmtp:97 apt=101",
      "a=rtpmap:98 rtx/90000", "a=fmtp:98 apt=116",
      " 116", " 117", " 96", " 97", " 98">>

\* RewriteDirection leaving the description as it came.
RewriteDirection_Keep(sdp) == sdp

RewriteDirection(sdp) ==
    IF Contains(sdp, "a=recvonly")
    THEN janus_string_replace(sdp, "a=recvonly", "a=inactive")
    ELSE IF Contains(sdp, "a=sendonly")
    THEN janus_string_replace(sdp, "a=sendonly", "a=recvonly")
    ELSE sdp

StripFec(sdp) ==
    IF \E tok \in UlpfecTokens : Contains(sdp, tok)
    THEN ReplaceAll(sdp, FecStrings)
    ELSE sdp

RewriteSdp(sdp) == StripFec(RewriteDirection(sdp))

\* FlipType answering with the type of the request.
FlipType_Same(type) == type

\* strcasecmp on the JSEP type; NULL ("") when it is neither.
FlipType(type) ==
    IF type = "offer" THEN "answer"
    ELSE IF type = "answer" THEN "offer"
    ELSE ""

\* json_pack("{ssss}", "type", type, "sdp", sdp): NULL when type is NULL.
AnswerJsep(j) ==
    IF FlipType(j.type) = "" THEN NoJsep
    ELSE [type |-> FlipType(j.type), has_sdp |-> TRUE, sdp |-> RewriteSdp(j.sdp)]

\* ------------------------------------------------------------------------
\* The handler's treatment of one request (the body of its loop)
\* ------------------------------------------------------------------------

NoError == [code |-> 0, cause |-> ""]
Err(c, why) == [code |-> c, cause |-> why]

\* Validate with the bitrate check moved in front of the audio check.
Validate_BitrateFirst(msg) ==
    LET root == msg.body
    IN  IF root.kind = "null"
        THEN Err(JANUS_SKYWAYIOT_ERROR_NO_MESSAGE, "No message??")
        ELSE IF root.kind # "object"
        THEN Err(JANUS_SKYWAYIOT_ERROR_INVALID_JSON, "JSON error: not an object")
        ELSE IF /\ json_present(root.bitrate)
                /\ (~json_is_integer(root.bitrate) \/ json_integer_value(root.bitrate) < 0)
        THEN Err(JANUS_SKYWAYIOT_ERROR_INVALID_ELEMENT,
                 "Invalid value (bitrate should be a positive integer)")
        ELSE IF json_present(root.audio) /\ ~json_is_boolean(root.audio)
        THEN Err(JANUS_SKYWAYIOT_ERROR_INVALID_ELEMENT,
                 "Invalid value (audio should be a boolean)")
        ELSE IF json_present(root.video) /\ ~json_is_boolean(root.video)
        THEN Err(JANUS_SKYWAYIOT_ERROR_INVALID_ELEMENT,
                 "Invalid value (video should be a boolean)")
        ELSE IF json_present(root.record) /\ ~json_is_boolean(root.record)
        THEN Err(JANUS_SKYWAYIOT_ERROR_INVALID_ELEMENT,
                 "Invalid value (record should be a boolean)")
        ELSE IF json_present(root.filename) /\ ~json_is_string(root.filename)
        THEN Err(JANUS_SKYWAYIOT_ERROR_INVALID_ELEMENT,
                 "Invalid value (filename should be a string)")
        ELSE NoError

\* The checks made before anything is applied; the first that fails decides.
Validate(msg) ==
    LET root == msg.body
    IN  IF root.kind = "null"
        THEN Err(JANUS_SKYWAYIOT_ERROR_NO_MESSAGE, "No message??")
        ELSE IF root.kind # "object"
        THEN Err(JANUS_SKYWAYIOT_ERROR_INVALID_JSON, "JSON error: not an object")
        ELSE IF json_present(root.audio) /\ ~json_is_boolean(root.audio)
        THEN Err(JANUS_SKYWAYIOT_ERROR_INVALID_ELEMENT,
                 "Invalid value (audio should be a boolean)")
        ELSE IF json_present(root.video) /\ ~json_is_boolean(root.video)
        THEN Err(JANUS_SKYWAYIOT_ERROR_INVALID_ELEMENT,
                 "Invalid value (video should be a boolean)")
        ELSE IF /\ json_present(root.bitrate)
                /\ (~json_is_integer(root.bitrate) \/ json_integer_value(root.bitrate) < 0)
        THEN Err(JANUS_SKYWAYIOT_ERROR_INVALID_ELEMENT,
                 "Invalid value (bitrate should be a positive integer)")
        ELSE IF json_present(root.record) /\ ~json_is_boolean(root.record)
        THEN Err(JANUS_SKYWAYIOT_ERROR_INVALID_ELEMENT,
                 "Invalid value (record should be a boolean)")
        ELSE IF json_present(root.filename) /\ ~json_is_string(root.filename)
        THEN Err(JANUS_SKYWAYIOT_ERROR_INVALID_ELEMENT,
                 "Invalid value (filename should be a string)")
        ELSE NoError

\* The check made after the request was applied.
NoSupportedAttributes(msg) ==
    /\ ~json_present(msg.body.audio)
    /\ ~json_present(msg.body.video)
    /\ ~json_present(msg.body.bitrate)
    /\ ~json_present(msg.body.record)
    /\ ~msg.jsep.has_sdp

SetHasMedia(s, sdp) ==
    [s EXCEPT !.has_audio = Contains(sdp, "m=audio"),
              !.has_video = Contains(sdp, "m=video"),
              !.has_data = Contains(sdp, "DTLS/SCTP")]

EnforceAudio(st, msg) ==
    IF json_present(msg.body.audio)
    THEN [st EXCEPT !.s.audio_active = json_is_true(msg.body.audio)]
    ELSE st

\* EnforceVideo sending the PLI whenever video is requested on.
EnforceVideo_PliWhenOn(st, msg) ==
    IF json_present(msg.body.video)
    THEN [s |-> [st.s EXCEPT !.video_active = json_is_true(msg.body.video)],
          outs |-> IF json_is_true(msg.body.video)
                   THEN Append(st.outs, Rtcp(msg.handle, "pli", 0, msg.txn))
                   ELSE st.outs]
    ELSE st

EnforceVideo(st, msg) ==
    IF json_present(msg.body.video)
    THEN [s |-> [st.s EXCEPT !.video_active = json_is_true(msg.body.video)],
          outs |-> IF ~st.s.video_active /\ json_is_true(msg.body.video)
                   THEN Append(st.outs, Rtcp(msg.handle, "pli", 0, msg.txn))
                   ELSE st.outs]
    ELSE st

\* EnforceBitrate sending a REMB for every bitrate, 0 too.
EnforceBitrate_RembAlways(st, msg) ==
    IF json_present(msg.body.bitrate)
    THEN LET b == json_integer_value(msg.body.bitrate)
         IN  [s |-> [st.s EXCEPT !.bitrate = b],
              outs |-> Append(st.outs, Rtcp(msg.handle, "remb", b, msg.txn))]
    ELSE st

EnforceBitrate(st, msg) ==
    IF json_present(msg.body.bitrate)
    THEN LET b == json_integer_value(msg.body.bitrate)
         IN  [s |-> [st.s EXCEPT !.bitrate = b],
              outs |-> IF b > 0
                       THEN Append(st.outs, Rtcp(msg.handle, "remb", b, msg.txn))
                       ELSE st.outs]
    ELSE st

\* recOk: whether janus_recorder_create returns a recorder.
EnforceRecord(st, msg, recOk) ==
    IF json_present(msg.body.record)
    THEN LET s1 == IF msg.jsep.has_sdp THEN SetHasMedia(st.s, msg.jsep.sdp) ELSE st.s
         IN  IF ~json_is_true(msg.body.record)
             THEN [s |-> [s1 EXCEPT !.arc = FALSE, !.vrc = FALSE, !.drc = FALSE],
                   outs |-> st.outs]
             ELSE [s |-> [s1 EXCEPT !.arc = IF s1.has_audio THEN recOk ELSE @,
                                    !.vrc = IF s1.has_video THEN recOk ELSE @,
                                    !.drc = IF s1.has_data THEN recOk ELSE @],
                   outs |-> IF s1.has_video
                            THEN Append(st.outs, Rtcp(msg.handle, "pli", 0, msg.txn))
                            ELSE st.outs]
    ELSE st

EnforceSdp(st, msg) ==
    IF msg.jsep.has_sdp
    THEN [st EXCEPT !.s = SetHasMedia(st.s, msg.jsep.sdp)]
    ELSE st

Enforce(s, msg, recOk) ==
    EnforceSdp(
        EnforceRecord(
            EnforceBitrate(
                EnforceVideo(
                    EnforceAudio([s |-> s, outs |-> <<>>], msg), msg), msg), msg, recOk), msg)

ErrorEvent(msg, e) == Event(msg.handle, msg.txn, msg.txn, "error", e.code, e.cause, NoJsep)
OkEvent(msg, j) == Event(msg.handle, msg.txn, msg.txn, "ok", 0, "", j)

\* HandleRequest with the "goto error" of the checks lost: the error event is
\* pushed and the request is then applied and answered "ok" as well.
HandleRequest_FallThrough(s, msg, recOk) ==
    LET v == Validate(msg)
        e == Enforce(s, msg, recOk)
    IN  IF v.code # 0
        THEN [s |-> e.s, outs |-> <<ErrorEvent(msg, v)>> \o e.outs \o <<OkEvent(msg, NoJsep)>>]
        ELSE [s |-> e.s, outs |-> Append(e.outs, OkEvent(msg, NoJsep))]

\* HandleRequest freeing an invalid request without the error event.
HandleRequest_SilentError(s, msg, recOk) ==
    LET v == Validate(msg)
        e == Enforce(s, msg, recOk)
    IN  IF v.code # 0 \/ NoSupportedAttributes(msg)
        THEN [s |-> s, outs |-> <<>>]
        ELSE [s |-> e.s, outs |-> Append(e.outs, OkEvent(msg, AnswerJsep(msg.jsep)))]

\* HandleRequest applying each attribute as soon as it is parsed, so that a
\* later check can fail after an earlier attribute took effect.
HandleRequest_EnforceFirst(s, msg, recOk) ==
    LET v == Validate(msg)
        e == Enforce(s, msg, recOk)
    IN  IF v.code \in {JANUS_SKYWAYIOT_ERROR_NO_MESSAGE, JANUS_SKYWAYIOT_ERROR_INVALID_JSON}
        THEN [s |-> s, outs |-> <<ErrorEvent(msg, v)>>]
        ELSE IF v.code # 0
        THEN [s |-> e.s, outs |-> Append(e.outs, ErrorEvent(msg, v))]
        ELSE IF NoSupportedAttributes(msg)
        THEN [s |-> e.s,
              outs |-> Append(e.outs,
                  ErrorEvent(msg, Err(JANUS_SKYWAYIOT_ERROR_INVALID_ELEMENT,
                      "Message error: no supported attributes (audio, video, bitrate, record, jsep) found")))]
        ELSE [s |-> e.s, outs |-> Append(e.outs, OkEvent(msg, AnswerJsep(msg.jsep)))]

\* From "Handle request" to the end of the loop body: the session as the
\* handler leaves it and the gateway calls it makes, in order.
HandleRequest(s, msg, recOk) ==
    LET v == Validate(msg)
    IN  IF v.code # 0
        THEN [s |-> s, outs |-> <<ErrorEvent(msg, v)>>]
        ELSE LET e == Enforce(s, msg, recOk)
             IN  IF NoSupportedAttributes(msg)
                 THEN [s |-> e.s,
                       outs |-> Append(e.outs,
                           ErrorEvent(msg, Err(JANUS_SKYWAYIOT_ERROR_INVALID_ELEMENT,
                               "Message error: no supported attributes (audio, video, bitrate, record, jsep) found")))]
                 ELSE IF ~msg.jsep.has_sdp
                 THEN [s |-> e.s, outs |-> Append(e.outs, OkEvent(msg, NoJsep))]
                 ELSE [s |-> [e.s EXCEPT !.hangingup = 0],
                       outs |-> Append(e.outs, OkEvent(msg, AnswerJsep(msg.jsep)))]

\* ------------------------------------------------------------------------
\* State
\* ------------------------------------------------------------------------

VARIABLES
    initialized,    \* the plugin's initialized flag (0 or 1)
    stopping,       \* the plugin's stopping flag (0 or 1)
    now,            \* janus_get_monotonic_time(), in seconds
    sess,           \* handle -> the session record handle->plugin_handle points to
    sessions,       \* the keys of the sessions hash table
    old_sessions,   \* the old_sessions list, as the handles of its sessions
    messages,       \* the messages queue
    torn,           \* sessions and messages are NULL (after plugin teardown)
    creating,       \* handles with a create_session call past its flag check
    sending,        \* messages of handle_message calls past their flag check
    nextTxn,        \* the transaction of the next message to reach the queue
    hpc,            \* handler thread: "top", "pop", "lookup", "check", "process", "done"
    cur,            \* handler thread: msg, the message it popped
    wpc,            \* watchdog thread: "run" or "done"
    dpc,            \* janus_skywayiot_destroy: "idle", "push", "joinh", "joinw", "teardown", "done"
    out,            \* the relay_rtcp and push_event calls made so far, in order
    markedAt,       \* handle -> the time at which destroy_session marked its session
    inflight        \* thread -> the callback (or the walk of the bridge listener) it is in

vars ==
    <<initialized, stopping, now, sess, sessions, old_sessions, messages, torn,
      creating, sending, nextTxn, hpc, cur, wpc, dpc, out,
      markedAt, inflight>>

\* The threads of the gateway that call into the plugin, and the plugin's
\* bridge listener.
Threads == {"t1", "t2", "bridge"}

\* A thread that is in no callback; calls counts the callbacks it has made.
Idle(calls) ==
    [op |-> "none", pc |-> "none", handle |-> 0, uplink |-> FALSE, video |-> FALSE,
     late |-> FALSE, id |-> <<>>, data |-> <<>>, todo |-> <<>>, calls |-> calls]

NooneInside == [t \in Threads |-> Idle(0)]

\* ------------------------------------------------------------------------
\* The requests the gateway delivers in Spec
\* ------------------------------------------------------------------------

AudioOff == [EmptyObject EXCEPT !.audio = JFalse]
AudioOffBadBitrate == [EmptyObject EXCEPT !.audio = JFalse, !.bitrate = JString]
VideoOnCapped == [EmptyObject EXCEPT !.video = JTrue, !.bitrate = JInt(2)]
Offer == [type |-> "offer", has_sdp |-> TRUE, sdp |-> <<"m=audio", "a=recvonly">>]

\* <<body, jsep>> pairs.
Requests ==
    { <<AudioOff, NoJsep>>, <<AudioOffBadBitrate, NoJsep>> }

\* ------------------------------------------------------------------------
\* The state once janus_skywayiot_init has returned 0
\* ------------------------------------------------------------------------

Init ==
    /\ initialized = 1
    /\ stopping = 0
    /\ now = 1
    /\ sess = [h \in Handles |-> NoSession]
    /\ sessions = {}
    /\ old_sessions = <<>>
    /\ messages = <<>>
    /\ torn = FALSE
    /\ creating = {}
    /\ sending = {}
    /\ nextTxn = 1
    /\ hpc = "top"
    /\ cur = NoMsg
    /\ wpc = "run"
    /\ dpc = "idle"
    /\ out = <<>>
    /\ markedAt = [h \in Handles |-> 0]
    /\ inflight = NooneInside

Running == initialized = 1 /\ stopping = 0

\* ------------------------------------------------------------------------
\* janus_skywayiot_create_session
\* ------------------------------------------------------------------------

\* The flag check; the call returns with *error = -1 when it fails.
CreateSessionEnter(h) ==
    /\ sess[h].mem = "none"
    /\ h \notin creating
    /\ ~(stopping = 1 \/ initialized = 0)
    /\ creating' = creating \cup {h}
    /\ UNCHANGED <<inflight, initialized, stopping, now, sess, sessions, old_sessions, messages,
                   torn, sending, nextTxn, hpc, cur, wpc, dpc, out, markedAt>>

\* g_hash_table_insert returns at once, with a critical warning, on a NULL table.
hash_table_insert(table, h) == IF torn THEN table ELSE table \cup {h}

\* The allocation and, under sessions_mutex, the insertion.
CreateSessionInsert(h) ==
    /\ h \in creating
    /\ creating' = creating \ {h}
    /\ sess' = [sess EXCEPT ![h] = NewSession]
    /\ sessions' = hash_table_insert(sessions, h)
    /\ UNCHANGED <<inflight, initialized, stopping, now, old_sessions, messages, torn, sending, nextTxn, hpc, cur, wpc, dpc, out, markedAt>>

\* ------------------------------------------------------------------------
\* janus_skywayiot_destroy_session
\* ------------------------------------------------------------------------

\* MarkDestroyed leaving the session in the hash table.
MarkDestroyed_NoRemove(h) ==
    IF sess[h].destroyed = 0
    THEN [s |-> [sess[h] EXCEPT !.destroyed = now],
          table |-> sessions,
          old |-> Append(old_sessions, h),
          at |-> now]
    ELSE [s |-> sess[h], table |-> sessions, old |-> old_sessions, at |-> markedAt[h]]

\* MarkDestroyed without the if(!session->destroyed) test.
MarkDestroyed_Unguarded(h) ==
    [s |-> [sess[h] EXCEPT !.destroyed = now],
     table |-> sessions \ {h},
     old |-> Append(old_sessions, h),
     at |-> IF sess[h].destroyed = 0 THEN now ELSE markedAt[h]]

\* The part under sessions_mutex: what becomes of the session, the table and
\* the list.
MarkDestroyed(h) ==
    IF sess[h].destroyed = 0
    THEN [s |-> [sess[h] EXCEPT !.destroyed = now],
          table |-> sessions \ {h},
          old |-> Append(old_sessions, h),
          at |-> now]
    ELSE [s |-> sess[h], table |-> sessions, old |-> old_sessions, at |-> markedAt[h]]

DestroySession(h) ==
    /\ stopping = 0 /\ initialized = 1
    /\ sess[h].mem = "alloc"
    /\ LET r == MarkDestroyed(h)
       IN  /\ sess' = [sess EXCEPT ![h] = r.s]
           /\ sessions' = r.table
           /\ old_sessions' = r.old
           /\ markedAt' = [markedAt EXCEPT ![h] = r.at]
    /\ UNCHANGED <<inflight, initialized, stopping, now, messages, torn, creating, sending,
                   nextTxn, hpc, cur, wpc, dpc, out>>

\* ------------------------------------------------------------------------
\* janus_skywayiot_query_session
\* ------------------------------------------------------------------------

NoInfo == [found |-> FALSE, audio_active |-> FALSE, video_active |-> FALSE,
           bitrate |-> 0, recording |-> FALSE, slowlink_count |-> 0, destroyed |-> 0]

\* query_session reporting "destroyed" as a flag instead of the timestamp.
query_session_flag(h) ==
    IF stopping = 1 \/ initialized = 0 THEN NoInfo
    ELSE IF sess[h].mem = "none" THEN NoInfo
    ELSE [found |-> TRUE,
          audio_active |-> sess[h].audio_active,
          video_active |-> sess[h].video_active,
          bitrate |-> sess[h].bitrate,
          recording |-> (sess[h].arc \/ sess[h].vrc \/ sess[h].drc),
          slowlink_count |-> sess[h].slowlink_count,
          destroyed |-> IF sess[h].destroyed # 0 THEN -1 ELSE 0]

\* The JSON object returned, or NULL (NoInfo).
query_session(h) ==
    IF stopping = 1 \/ initialized = 0 THEN NoInfo
    ELSE IF sess[h].mem = "none" THEN NoInfo
    ELSE [found |-> TRUE,
          audio_active |-> sess[h].audio_active,
          video_active |-> sess[h].video_active,
          bitrate |-> sess[h].bitrate,
          recording |-> (sess[h].arc \/ sess[h].vrc \/ sess[h].drc),
          slowlink_count |-> sess[h].slowlink_count,
          destroyed |-> sess[h].destroyed]

\* ------------------------------------------------------------------------
\* janus_skywayiot_handle_message
\* ------------------------------------------------------------------------

\* The flag check; the call returns a JANUS_PLUGIN_ERROR result when it fails.
HandleMessageEnter(h, body, jsep) ==
    /\ sess[h].mem # "none"
    /\ Msg(h, 0, body, jsep) \notin sending
    /\ nextTxn + Cardinality(sending) <= MaxMsgs
    /\ ~(stopping = 1 \/ initialized = 0)
    /\ sending' = sending \cup {Msg(h, 0, body, jsep)}
    /\ UNCHANGED <<inflight, initialized, stopping, now, sess, sessions, old_sessions, messages,
                   torn, creating, nextTxn, hpc, cur, wpc, dpc, out, markedAt>>

\* g_async_queue_push returns at once, with a critical warning, on a NULL queue.
async_queue_push(queue, m) == IF torn THEN queue ELSE Append(queue, m)

\* g_async_queue_push, then the "I'm taking my time!" result. The message
\* gets its transaction number here: transactions are numbered in the order
\* in which the messages reach the queue.
HandleMessagePush(m) ==
    /\ m \in sending
    /\ sending' = sending \ {m}
    /\ messages' = async_queue_push(messages, [m EXCEPT !.txn = nextTxn])
    /\ nextTxn' = IF torn THEN nextTxn ELSE nextTxn + 1
    /\ UNCHANGED <<inflight, initialized, stopping, now, sess, sessions, old_sessions, torn,
                   creating, hpc, cur, wpc, dpc, out, markedAt>>

\* ------------------------------------------------------------------------
\* The handler thread (janus_skywayiot_handler)
\* ------------------------------------------------------------------------

\* The loop condition.
HandlerTop ==
    /\ hpc = "top"
    /\ hpc' = IF initialized = 1 /\ stopping = 0 THEN "pop" ELSE "done"
    /\ UNCHANGED <<inflight, initialized, stopping, now, sess, sessions, old_sessions, messages,
                   torn, creating, sending, nextTxn, cur, wpc, dpc,
                   out, markedAt>>

\* async_queue_pop taking the newest message.
async_queue_pop_newest(queue) ==
    [msg |-> queue[Len(queue)], rest |-> SubSeq(queue, 1, Len(queue) - 1)]

\* g_async_queue_pop: the oldest message and the rest of the queue.
async_queue_pop(queue) == [msg |-> Head(queue), rest |-> Tail(queue)]

\* g_async_queue_pop blocks on an empty queue; exit_message ends the loop.
HandlerPop ==
    /\ hpc = "pop"
    /\ messages # <<>>
    /\ LET p == async_queue_pop(messages)
       IN  /\ messages' = p.rest
           /\ IF p.msg.exit
              THEN hpc' = "done" /\ cur' = NoMsg
              ELSE IF p.msg.handle = 0
              THEN hpc' = "top" /\ cur' = NoMsg
              ELSE hpc' = "lookup" /\ cur' = p.msg
    /\ UNCHANGED <<inflight, initialized, stopping, now, sess, sessions, old_sessions, torn,
                   creating, sending, nextTxn, wpc, dpc, out, markedAt>>

\* g_hash_table_lookup under sessions_mutex; the message is freed when the
\* handle has no session in the table.
HandlerLookup ==
    /\ hpc = "lookup"
    /\ IF cur.handle \in sessions
       THEN hpc' = "check" /\ cur' = cur
       ELSE hpc' = "top" /\ cur' = NoMsg
    /\ UNCHANGED <<inflight, initialized, stopping, now, sess, sessions, old_sessions, messages,
                   torn, creating, sending, nextTxn, wpc, dpc, out,
                   markedAt>>

\* What a read of session->destroyed can give: the field, or anything when the
\* watchdog has freed the record since the lookup.
ReadDestroyed(h) ==
    IF sess[h].mem = "freed" THEN {0, sess[h].destroyed} ELSE {sess[h].destroyed}

\* if(session->destroyed), after the mutex was released.
HandlerCheck ==
    /\ hpc = "check"
    /\ \E d \in ReadDestroyed(cur.handle) :
          IF d # 0
          THEN hpc' = "top" /\ cur' = NoMsg
          ELSE hpc' = "process" /\ cur' = cur
    /\ UNCHANGED <<inflight, initialized, stopping, now, sess, sessions, old_sessions, messages,
                   torn, creating, sending, nextTxn, wpc, dpc, out,
                   markedAt>>

\* What the handler reads as the session: the record, or arbitrary flags when
\* the record has been freed.
SessionViews(h) ==
    IF sess[h].mem = "freed"
    THEN {[sess[h] EXCEPT !.video_active = va, !.has_video = hv] : va, hv \in BOOLEAN}
    ELSE {sess[h]}

\* The request is validated, applied and answered. Writes to a freed record
\* are not kept.
HandlerProcess ==
    /\ hpc = "process"
    /\ \E recOk \in BOOLEAN, view \in SessionViews(cur.handle) :
          LET r == HandleRequest(view, cur, recOk)
          IN  /\ sess' = IF sess[cur.handle].mem = "freed"
                         THEN sess
                         ELSE [sess EXCEPT ![cur.handle] = r.s]
              /\ out' = out \o r.outs
    /\ hpc' = "top"
    /\ cur' = NoMsg
    /\ UNCHANGED <<inflight, initialized, stopping, now, sessions, old_sessions, messages, torn,
                   creating, sending, nextTxn, wpc, dpc, markedAt>>

\* ------------------------------------------------------------------------
\* The watchdog thread (janus_skywayiot_watchdog)
\* ------------------------------------------------------------------------

\* Expired never true: the watchdog frees nothing.
Expired_Never(h, t) == FALSE

\* Expired one second early.
Expired_Early(h, t) == t - sess[h].destroyed >= GraceInterval - 1

\* now-session->destroyed >= 5*G_USEC_PER_SEC
Expired(h, t) == t - sess[h].destroyed >= GraceInterval

\* The walk over old_sessions: the list without the links it deletes.
RECURSIVE WatchdogWalk(_, _)
WatchdogWalk(sl, t) ==
    IF sl = <<>> THEN <<>>
    ELSE IF Expired(Head(sl), t)
    THEN WatchdogWalk(Tail(sl), t)
    ELSE <<Head(sl)>> \o WatchdogWalk(Tail(sl), t)

Range(seq) == {seq[i] : i \in 1..Len(seq)}

\* One pass of the loop, under sessions_mutex, with one reading of the clock.
WatchdogPass ==
    /\ wpc = "run"
    /\ initialized = 1 /\ stopping = 0
    /\ old_sessions' = WatchdogWalk(old_sessions, now)
    /\ sess' = [h \in Handles |->
                  IF h \in Range(old_sessions) /\ h \notin Range(old_sessions')
                  THEN [sess[h] EXCEPT !.mem = "freed"]
                  ELSE sess[h]]
    /\ UNCHANGED <<inflight, initialized, stopping, now, sessions, messages, torn, creating,
                   sending, nextTxn, hpc, cur, wpc, dpc, out, markedAt>>

\* The loop condition fails.
WatchdogExit ==
    /\ wpc = "run"
    /\ ~(initialized = 1 /\ stopping = 0)
    /\ wpc' = "done"
    /\ UNCHANGED <<inflight, initialized, stopping, now, sess, sessions, old_sessions, messages,
                   torn, creating, sending, nextTxn, hpc, cur, dpc,
                   out, markedAt>>

\* ------------------------------------------------------------------------
\* janus_skywayiot_destroy
\* ------------------------------------------------------------------------

PluginDestroyStop ==
    /\ dpc = "idle"
    /\ initialized = 1
    /\ stopping' = 1
    /\ dpc' = "push"
    /\ UNCHANGED <<inflight, initialized, now, sess, sessions, old_sessions, messages, torn,
                   creating, sending, nextTxn, hpc, cur, wpc, out,
                   markedAt>>

\* PluginDestroyPushExit without the g_async_queue_push of exit_message.
PluginDestroyPushExit_NoSentinel ==
    /\ dpc = "push"
    /\ dpc' = "joinh"
    /\ UNCHANGED <<inflight, initialized, stopping, now, sess, sessions, old_sessions, messages,
                   torn, creating, sending, nextTxn, hpc, cur, wpc, out,
                   markedAt>>

PluginDestroyPushExit ==
    /\ dpc = "push"
    /\ messages' = Append(messages, exit_message)
    /\ dpc' = "joinh"
    /\ UNCHANGED <<inflight, initialized, stopping, now, sess, sessions, old_sessions, torn,
                   creating, sending, nextTxn, hpc, cur, wpc, out,
                   markedAt>>

\* g_thread_join(handler_thread)
PluginDestroyJoinHandler ==
    /\ dpc = "joinh"
    /\ hpc = "done"
    /\ dpc' = "joinw"
    /\ UNCHANGED <<inflight, initialized, stopping, now, sess, sessions, old_sessions, messages,
                   torn, creating, sending, nextTxn, hpc, cur, wpc,
                   out, markedAt>>

\* g_thread_join(watchdog)
PluginDestroyJoinWatchdog ==
    /\ dpc = "joinw"
    /\ wpc = "done"
    /\ dpc' = "teardown"
    /\ UNCHANGED <<inflight, initialized, stopping, now, sess, sessions, old_sessions, messages,
                   torn, creating, sending, nextTxn, hpc, cur, wpc,
                   out, markedAt>>

\* g_hash_table_destroy(sessions) (no value destructor: the records stay
\* allocated), g_async_queue_unref(messages) (frees what is still queued),
\* both pointers set to NULL, the flags cleared. old_sessions is not touched.
PluginDestroyTeardown ==
    /\ dpc = "teardown"
    /\ sessions' = {}
    /\ messages' = <<>>
    /\ torn' = TRUE
    /\ initialized' = 0
    /\ stopping' = 0
    /\ dpc' = "done"
    /\ UNCHANGED <<inflight, now, sess, old_sessions, creating, sending, nextTxn, hpc, cur, wpc, out, markedAt>>

\* ------------------------------------------------------------------------
\* The clock
\* ------------------------------------------------------------------------

Tick ==
    /\ now < MaxTime
    /\ old_sessions # <<>>
    /\ initialized = 1 /\ stopping = 0
    /\ now' = now + 1
    /\ UNCHANGED <<inflight, initialized, stopping, sess, sessions, old_sessions, messages, torn,
                   creating, sending, nextTxn, hpc, cur, wpc, dpc,
                   out, markedAt>>

\* ------------------------------------------------------------------------
\* The system
\* ------------------------------------------------------------------------

Gateway ==
    \/ \E h \in Handles : CreateSessionEnter(h)
    \/ \E h \in Handles : CreateSessionInsert(h)
    \/ \E h \in Handles : DestroySession(h)
    \/ \E h \in Handles, r \in Requests : HandleMessageEnter(h, r[1], r[2])
    \/ \E m \in sending : HandleMessagePush(m)

Handler == HandlerTop \/ HandlerPop \/ HandlerLookup \/ HandlerCheck \/ HandlerProcess

Watchdog == WatchdogPass \/ WatchdogExit

PluginDestroy ==
    \/ PluginDestroyStop
    \/ PluginDestroyPushExit
    \/ PluginDestroyJoinHandler
    \/ PluginDestroyJoinWatchdog
    \/ PluginDestroyTeardown

Next == Gateway \/ Handler \/ Watchdog \/ PluginDestroy \/ Tick

Spec == Init /\ [][Next]_vars

\* The scheduler runs the handler thread and the watchdog thread whenever
\* they can take a step.
LiveSpec ==
    /\ Init
    /\ [][Next]_vars
    /\ WF_vars(HandlerTop)
    /\ WF_vars(HandlerPop)
    /\ WF_vars(HandlerLookup)
    /\ WF_vars(HandlerCheck)
    /\ WF_vars(HandlerProcess)
    /\ WF_vars(Watchdog)

\* The thread that called janus_skywayiot_destroy runs on to its end as well.
ShutdownSpec ==
    /\ LiveSpec
    /\ WF_vars(PluginDestroyPushExit)
    /\ WF_vars(PluginDestroyJoinHandler)
    /\ WF_vars(PluginDestroyJoinWatchdog)
    /\ WF_vars(PluginDestroyTeardown)

\* ------------------------------------------------------------------------
\* The handler on one request: every request body and JSEP payload of the
\* bounded sets below, met by a live session in any state of its controls.
\* ------------------------------------------------------------------------

BoolValues == {JAbsent, JTrue, JFalse, JString}
BitrateValues == {JAbsent, JInt(-1), JInt(0), JInt(2), JString}
FilenameValues == {JAbsent, JString, JTrue}

AllBodies ==
    {NullBody, NotObjectBody} \cup
    {[kind |-> "object", audio |-> a, video |-> v, bitrate |-> b, record |-> r,
      filename |-> f] :
        a \in BoolValues, v \in BoolValues, b \in BitrateValues, r \in BoolValues,
        f \in FilenameValues}

Answer ==
    [type |-> "answer", has_sdp |-> TRUE, sdp |-> <<"m=video", "a=sendonly", "DTLS/SCTP">>]
TypeOnly == [type |-> "offer", has_sdp |-> FALSE, sdp |-> <<>>]
AllJseps == {NoJsep, Offer, Answer, TypeOnly}

LiveSessions ==
    {[NewSession EXCEPT !.audio_active = a, !.video_active = v, !.bitrate = b,
                        !.has_video = hv, !.arc = r] :
        a \in BOOLEAN, v \in BOOLEAN, hv \in BOOLEAN, r \in BOOLEAN, b \in {0, 2}}

\* The handler has popped the first message, for the session of handle 1, and
\* found the session live.
InitHandler ==
    /\ initialized = 1
    /\ stopping = 0
    /\ now = 1
    /\ \E s \in LiveSessions : sess = [h \in Handles |-> IF h = 1 THEN s ELSE NoSession]
    /\ sessions = {1}
    /\ old_sessions = <<>>
    /\ messages = <<>>
    /\ torn = FALSE
    /\ creating = {}
    /\ sending = {}
    /\ nextTxn = 2
    /\ hpc = "process"
    /\ \E b \in AllBodies, j \in AllJseps : cur = Msg(1, 1, b, j)
    /\ wpc = "run"
    /\ dpc = "idle"
    /\ out = <<>>
    /\ markedAt = [h \in Handles |-> 0]
    /\ inflight = NooneInside

NextHandler == HandlerProcess

HandlerSpec == InitHandler /\ [][NextHandler]_vars

\* ------------------------------------------------------------------------
\* The media callbacks and the external bridge
\*
\* In MediaSpec out is the trace of the callback (or of the datagram of the
\* bridge listener) last handled: the call with its arguments, then the
\* sendto, relay_rtcp, relay_data and push_event calls it made, in order.
\* ------------------------------------------------------------------------

\* Bound of the model: slow_link is called on a session at most this often.
MaxSlowLinks == 4

\* sizeof(guint64): the length of the connection id of a bridge frame.
handle_id_len == 8

\* memcpy of an integer of n bytes into a buffer (little endian).
RECURSIVE Bytes(_, _)
Bytes(v, n) == IF n = 0 THEN <<>> ELSE <<v % 256>> \o Bytes(v \div 256, n - 1)

\* The bytes of (guint64)handle.
HandleId(h) == Bytes(h, handle_id_len)

\* The bytes of 0xffffffffffffffff.
AllOnes == [i \in 1..handle_id_len |-> 255]

\* A callback of the gateway with its arguments; stopped is handle->stopped
\* as the callback reads it.
Call(op, h, video, uplink, stopped, buf) ==
    [type |-> "call", op |-> op, handle |-> h, video |-> video, uplink |-> uplink,
     stopped |-> stopped, buf |-> buf]

\* sendto(media_send_fd, ...) and sendto(data_send_fd, ...).
Sendto(fd, buf) == [type |-> "sendto", fd |-> fd, buf |-> buf]

\* gateway->relay_rtcp(handle, video, buf, len) of a packet the peer sent.
ForwardRtcp(h, video, buf) ==
    [type |-> "rtcp", handle |-> h, kind |-> "forward", video |-> video, buf |-> buf,
     bitrate |-> 0, txn |-> 0, req |-> 0, code |-> 0, cause |-> "", jsep |-> NoJsep]

\* gateway->relay_data(handle, data, data_len).
RelayData(h, buf) == [type |-> "relay_data", handle |-> h, buf |-> buf]

\* The event of slow_link, pushed with a NULL transaction.
SlowLinkEvent(h, b) ==
    [Event(h, 0, 0, "slow_link", 0, "", NoJsep) EXCEPT !.bitrate = b]

\* The first test of the media callbacks.
Refused(stopped) == stopped \/ stopping = 1 \/ initialized = 0

\* if(!session) return; if(session->destroyed) return;
LiveSession(h) == sess[h].mem # "none" /\ sess[h].destroyed = 0

\* RtpPasses relaying video whenever audio is active.
RtpPasses_AudioFlagOnly(s, video) == s.audio_active

\* (!video && session->audio_active) || (video && session->video_active)
RtpPasses(s, video) == (~video /\ s.audio_active) \/ (video /\ s.video_active)

\* janus_skywayiot_incoming_rtp
IncomingRtp(h, stopped, video, buf) ==
    /\ out' = <<Call("incoming_rtp", h, video, FALSE, stopped, buf)>> \o
              (IF ~Refused(stopped) /\ LiveSession(h) /\ RtpPasses(sess[h], video)
               THEN <<Sendto("media", buf)>>
               ELSE <<>>)
    /\ UNCHANGED <<inflight, initialized, stopping, now, sess, sessions, old_sessions, messages,
                   torn, creating, sending, nextTxn, hpc, cur, wpc, dpc, markedAt>>

\* An RTCP packet, as far as the plugin looks into it: whether it holds a REMB
\* and the bitrate of that REMB.
RtcpPacket(has_remb, b) == [has_remb |-> has_remb, bitrate |-> b]

\* janus_rtcp_cap_remb: a REMB above the cap is rewritten to the cap.
janus_rtcp_cap_remb(pkt, cap) ==
    IF pkt.has_remb /\ pkt.bitrate > cap THEN [pkt EXCEPT !.bitrate = cap] ELSE pkt

\* CapRtcp leaving the packet as it came.
CapRtcp_Never(s, pkt) == pkt

\* if(session->bitrate > 0) janus_rtcp_cap_remb(buf, len, session->bitrate);
CapRtcp(s, pkt) == IF s.bitrate > 0 THEN janus_rtcp_cap_remb(pkt, s.bitrate) ELSE pkt

\* janus_skywayiot_incoming_rtcp
IncomingRtcp(h, stopped, video, pkt) ==
    /\ out' = <<Call("incoming_rtcp", h, video, FALSE, stopped, pkt)>> \o
              (IF ~Refused(stopped) /\ LiveSession(h)
               THEN <<ForwardRtcp(h, video, CapRtcp(sess[h], pkt))>>
               ELSE <<>>)
    /\ UNCHANGED <<inflight, initialized, stopping, now, sess, sessions, old_sessions, messages,
                   torn, creating, sending, nextTxn, hpc, cur, wpc, dpc, markedAt>>

\* DataFrame with the payload in front of the handle id.
DataFrame_IdLast(h, buf) == buf \o HandleId(h)

\* ext_data: the handle id, then the payload.
DataFrame(h, buf) == HandleId(h) \o buf

\* janus_skywayiot_incoming_data; buf = <<>> stands for buf == NULL || len <= 0.
IncomingData(h, stopped, buf) ==
    /\ out' = <<Call("incoming_data", h, FALSE, FALSE, stopped, buf)>> \o
              (IF ~Refused(stopped) /\ LiveSession(h) /\ buf # <<>>
               THEN <<Sendto("data", DataFrame(h, buf))>>
               ELSE <<>>)
    /\ UNCHANGED <<inflight, initialized, stopping, now, sess, sessions, old_sessions, messages,
                   torn, creating, sending, nextTxn, hpc, cur, wpc, dpc, markedAt>>

\* NacksExpected with no NACKs ever expected.
NacksExpected_Never(s, uplink, video) == FALSE

\* The two branches of slow_link that only log.
NacksExpected(s, uplink, video) ==
    \/ uplink /\ ~video /\ ~s.audio_active
    \/ uplink /\ video /\ ~s.video_active

\* HalveBitrate without the test of a cap being set.
HalveBitrate_FromDefault(b) == (512 * 1024) \div 2

\* HalveBitrate without the floor.
HalveBitrate_NoFloor(b) == (IF b > 0 THEN b ELSE 512 * 1024) \div 2

\* The new session->bitrate of slow_link.
HalveBitrate(b) ==
    LET b0 == IF b > 0 THEN b ELSE 512 * 1024
        b1 == b0 \div 2
    IN  IF b1 < 64 * 1024 THEN 64 * 1024 ELSE b1

\* slow_link past its tests of the handle and the session: the session it
\* leaves and the calls it makes. slowlink_count is a guint16.
SlowLinkEffect(s, h, uplink, video) ==
    LET s1 == [s EXCEPT !.slowlink_count = (@ + 1) % 65536]
    IN  IF NacksExpected(s1, uplink, video) \/ ~video
        THEN [s |-> s1, outs |-> <<>>]
        ELSE LET b == HalveBitrate(s1.bitrate)
             IN  [s |-> [s1 EXCEPT !.bitrate = b],
                  outs |-> <<Rtcp(h, "remb", b, 0), SlowLinkEvent(h, b)>>]

\* janus_skywayiot_slow_link
SlowLink(h, stopped, uplink, video) ==
    /\ sess[h].slowlink_count < MaxSlowLinks
    /\ LET c == Call("slow_link", h, video, uplink, stopped, <<>>)
       IN  IF ~Refused(stopped) /\ LiveSession(h)
           THEN LET r == SlowLinkEffect(sess[h], h, uplink, video)
                IN  /\ sess' = [sess EXCEPT ![h] = r.s]
                    /\ out' = <<c>> \o r.outs
           ELSE /\ sess' = sess
                /\ out' = <<c>>
    /\ UNCHANGED <<inflight, initialized, stopping, now, sessions, old_sessions, messages,
                   torn, creating, sending, nextTxn, hpc, cur, wpc, dpc, markedAt>>

\* LongEnough taking a datagram that is the connection id alone.
LongEnough_IdAlone(chunk) == Len(chunk) >= handle_id_len

\* if(bytes_recv > handle_id_len)
LongEnough(chunk) == Len(chunk) > handle_id_len

\* relay_extern_data matching the connection id only.
relay_extern_data_NoBroadcast(h, id, data) ==
    IF HandleId(h) = id THEN <<RelayData(h, data)>> ELSE <<>>

\* relay_extern_data: the callback of g_hash_table_foreach for one entry.
relay_extern_data(h, id, data) ==
    IF id = AllOnes \/ HandleId(h) = id THEN <<RelayData(h, data)>> ELSE <<>>

\* The orders in which g_hash_table_foreach can visit the entries.
Orders(S) == {q \in [1..Cardinality(S) -> S] : \A x \in S : \E i \in DOMAIN q : q[i] = x}

RECURSIVE Foreach(_, _, _)
Foreach(order, id, data) ==
    IF order = <<>> THEN <<>>
    ELSE relay_extern_data(Head(order), id, data) \o Foreach(Tail(order), id, data)

\* One turn of the loop of thread_receive_external_data, for the datagram
\* recvfrom returned. g_hash_table_foreach does nothing on a NULL table.
ReceiveExternalData(chunk) ==
    /\ \E order \in Orders(IF torn THEN {} ELSE sessions) :
          out' = <<Call("recvfrom", 0, FALSE, FALSE, FALSE, chunk)>> \o
                 (IF LongEnough(chunk)
                  THEN Foreach(order, SubSeq(chunk, 1, handle_id_len),
                               SubSeq(chunk, handle_id_len + 1, Len(chunk)))
                  ELSE <<>>)
    /\ UNCHANGED <<inflight, initialized, stopping, now, sess, sessions, old_sessions, messages,
                   torn, creating, sending, nextTxn, hpc, cur, wpc, dpc, markedAt>>

\* What the gateway and the external peer send.
RtpPackets == {<<128, 1>>, <<128, 2, 3>>}
RtcpPackets == {RtcpPacket(FALSE, 0), RtcpPacket(TRUE, 70000), RtcpPacket(TRUE, 400000)}
Payloads == {<<>>, <<7>>, <<7, 9>>}
ConnectionIds == {HandleId(1), HandleId(2), HandleId(3), AllOnes}
Chunks ==
    {id \o data : id \in ConnectionIds, data \in Payloads} \cup
    {<<>>, <<1>>, SubSeq(AllOnes, 1, handle_id_len - 1), SubSeq(HandleId(1), 1, handle_id_len - 1)}

\* The frames just written to the data socket, which the external peer may
\* send back.
Written == {out[i].buf : i \in {j \in DOMAIN out : out[j].type = "sendto" /\ out[j].fd = "data"}}

\* The states of a session the callbacks can meet: none created, live with
\* any setting of its controls, destroyed and not yet freed.
MediaSessions ==
    {NoSession, [NewSession EXCEPT !.destroyed = 1]} \cup
    {[NewSession EXCEPT !.audio_active = a, !.video_active = v, !.bitrate = b] :
        a \in BOOLEAN, v \in BOOLEAN, b \in {0, 300000}}

\* The plugin running, stopping (janus_skywayiot_destroy has set the flag),
\* or destroyed (the table is gone, the records are not).
InitMedia ==
    /\ \E phase \in {"running", "stopping", "destroyed"} :
          /\ initialized = (IF phase = "destroyed" THEN 0 ELSE 1)
          /\ stopping = (IF phase = "stopping" THEN 1 ELSE 0)
          /\ torn = (phase = "destroyed")
          /\ dpc = (CASE phase = "running" -> "idle"
                      [] phase = "stopping" -> "push"
                      [] OTHER -> "done")
          /\ hpc = (IF phase = "destroyed" THEN "done" ELSE "top")
          /\ wpc = (IF phase = "destroyed" THEN "done" ELSE "run")
          /\ \E s1 \in MediaSessions,
                s2 \in {NoSession, NewSession, [NewSession EXCEPT !.destroyed = 1]} :
                /\ sess = [h \in Handles |-> IF h = 1 THEN s1 ELSE s2]
                /\ sessions = (IF phase = "destroyed" THEN {}
                               ELSE {h \in Handles : sess[h].mem = "alloc" /\ sess[h].destroyed = 0})
                /\ \E old \in Orders({h \in Handles : sess[h].destroyed # 0}) :
                      old_sessions = old
                /\ markedAt = [h \in Handles |-> sess[h].destroyed]
                /\ inflight = NooneInside
    /\ now = 1
    /\ messages = <<>>
    /\ creating = {}
    /\ sending = {}
    /\ nextTxn = 1
    /\ cur = NoMsg
    /\ out = <<>>

NextMedia ==
    \/ \E h \in Handles, stopped \in BOOLEAN, video \in BOOLEAN, buf \in RtpPackets :
          IncomingRtp(h, stopped, video, buf)
    \/ \E h \in Handles, stopped \in BOOLEAN, video \in BOOLEAN, pkt \in RtcpPackets :
          IncomingRtcp(h, stopped, video, pkt)
    \/ \E h \in Handles, stopped \in BOOLEAN, buf \in Payloads :
          IncomingData(h, stopped, buf)
    \/ \E h \in Handles, stopped \in BOOLEAN, uplink \in BOOLEAN, video \in BOOLEAN :
          SlowLink(h, stopped, uplink, video)
    \/ \E chunk \in Chunks \cup Written : ReceiveExternalData(chunk)

MediaSpec == InitMedia /\ [][NextMedia]_vars

\* ------------------------------------------------------------------------
\* slow_link late in a session's life
\*
\* In CongestionSpec the session of handle 1 has already had congestion
\* signals (its guint16 counter is at 0 or two short of its top) and has a
\* cap that a request or an earlier signal left; the gateway goes on calling
\* slow_link. The calls made are counted in inflight["t1"].calls.
\* ------------------------------------------------------------------------

\* The sessions slow_link finds: the counts are those after 0 and after
\* 65534 signals, the caps those a "bitrate" request (2, 300000) or an
\* adaptation (65536) leaves.
CongestedSessions ==
    {[NewSession EXCEPT !.audio_active = a, !.video_active = v, !.bitrate = b,
                        !.slowlink_count = n] :
        a \in BOOLEAN, v \in BOOLEAN, b \in {0, 2, 65536, 300000}, n \in {0, 65534}}

InitCongestion ==
    /\ initialized = 1
    /\ stopping = 0
    /\ now = 1
    /\ \E s1 \in CongestedSessions :
          sess = [h \in Handles |-> IF h = 1 THEN s1 ELSE [NewSession EXCEPT !.destroyed = 1]]
    /\ sessions = {1}
    /\ old_sessions = <<2>>
    /\ messages = <<>>
    /\ torn = FALSE
    /\ creating = {}
    /\ sending = {}
    /\ nextTxn = 1
    /\ hpc = "top"
    /\ cur = NoMsg
    /\ wpc = "run"
    /\ dpc = "idle"
    /\ out = <<>>
    /\ markedAt = [h \in Handles |-> IF h = 1 THEN 0 ELSE 1]
    /\ inflight = NooneInside

\* janus_skywayiot_slow_link, whatever the counter has got to.
SlowLinkAgain(h, stopped, uplink, video) ==
    /\ inflight["t1"].calls < MaxSlowLinks
    /\ inflight' = [inflight EXCEPT !["t1"].calls = @ + 1]
    /\ LET c == Call("slow_link", h, video, uplink, stopped, <<>>)
       IN  IF ~Refused(stopped) /\ LiveSession(h)
           THEN LET r == SlowLinkEffect(sess[h], h, uplink, video)
                IN  /\ sess' = [sess EXCEPT ![h] = r.s]
                    /\ out' = <<c>> \o r.outs
           ELSE /\ sess' = sess
                /\ out' = <<c>>
    /\ UNCHANGED <<initialized, stopping, now, sessions, old_sessions, messages,
                   torn, creating, sending, nextTxn, hpc, cur, wpc, dpc, markedAt>>

NextCongestion ==
    \E h \in Handles, stopped \in BOOLEAN, uplink \in BOOLEAN, video \in BOOLEAN :
       SlowLinkAgain(h, stopped, uplink, video)

CongestionSpec == InitCongestion /\ [][NextCongestion]_vars

\* ------------------------------------------------------------------------
\* The negotiation: a description delivered to the handler, answered, and
\* the answer's description delivered again
\*
\* In RewriteSpec out holds, in order, the handle_message call that delivered
\* each request (its jsep in buf) and the calls the handler made for it.
\* ------------------------------------------------------------------------

\* Bound of the model: the descriptions hold at most this many lines.
MaxSdpLines == 3

\* The lines of the descriptions delivered.
SdpLines == {"a=recvonly", "a=sendonly", "a=inactive", "a=rtpmap:117 ulpfec/90000", " 96"}

Sdps == UNION {[1..n -> SdpLines] : n \in 1..MaxSdpLines}

\* janus_skywayiot_handle_message(handle, transaction, message, jsep) as the
\* gateway calls it.
Delivered(h, j) == Call("handle_message", h, FALSE, FALSE, FALSE, j)

\* The handler has popped a request that carries an offer, for the live
\* session of handle 1.
InitRewrite ==
    /\ initialized = 1
    /\ stopping = 0
    /\ now = 1
    /\ sess = [h \in Handles |-> IF h = 1 THEN NewSession ELSE NoSession]
    /\ sessions = {1}
    /\ old_sessions = <<>>
    /\ messages = <<>>
    /\ torn = FALSE
    /\ creating = {}
    /\ sending = {}
    /\ nextTxn = 2
    /\ hpc = "process"
    /\ \E sdp \in Sdps, t \in {"offer", "answer"} :
          /\ cur = Msg(1, 1, EmptyObject, [type |-> t, has_sdp |-> TRUE, sdp |-> sdp])
          /\ out = <<Delivered(1, cur.jsep)>>
    /\ wpc = "run"
    /\ dpc = "idle"
    /\ markedAt = [h \in Handles |-> 0]
    /\ inflight = NooneInside

\* The peer sends the description of the last response back with the type it
\* was given: handle_message queues it, and the idle handler pops it and finds
\* the session live.
Redeliver ==
    /\ hpc = "top"
    /\ initialized = 1 /\ stopping = 0
    /\ nextTxn <= MaxMsgs
    /\ out # <<>>
    /\ out[Len(out)].type = "event"
    /\ out[Len(out)].jsep.has_sdp
    /\ cur' = Msg(1, nextTxn, EmptyObject, out[Len(out)].jsep)
    /\ out' = Append(out, Delivered(1, out[Len(out)].jsep))
    /\ nextTxn' = nextTxn + 1
    /\ hpc' = "process"
    /\ UNCHANGED <<inflight, initialized, stopping, now, sess, sessions, old_sessions, messages,
                   torn, creating, sending, wpc, dpc, markedAt>>

NextRewrite == HandlerProcess \/ Redeliver

RewriteSpec == InitRewrite /\ [][NextRewrite]_vars

\* ------------------------------------------------------------------------
\* janus_skywayiot_init
\*
\* In StartupSpec dpc is the position of the host thread that loads the
\* plugin ("load", "watchdog", "handler", then "idle" once init has returned 0
\* and "failed" once it has returned -1), a thread not yet launched is at
\* "unborn", and out is the trace of init: the call with what the system lets
\* it do, the threads launched, the value returned.
\* ------------------------------------------------------------------------

\* g_thread_try_new succeeded for the thread of this name.
Launched(name) == [type |-> "thread", op |-> name]

\* janus_skywayiot_init returned code.
Returned(code) == [type |-> "return", op |-> "init", code |-> code]

\* What init meets: whether the configuration has a complete
\* external-interface category, whether socket and bind of the data receiver
\* succeed, whether the listener thread can be launched.
Environments == [category : BOOLEAN, bind : BOOLEAN, listener : BOOLEAN]

\* create_data_receiver: the listener thread it launches, if any.
create_data_receiver(env) ==
    IF env.bind /\ env.listener THEN <<Launched("skywayiot_data_thread")>> ELSE <<>>

\* The plugin is loaded and janus_skywayiot_init has not been called.
BeforeInit ==
    /\ initialized = 0
    /\ stopping = 0
    /\ now = 1
    /\ sess = [h \in Handles |-> NoSession]
    /\ sessions = {}
    /\ old_sessions = <<>>
    /\ messages = <<>>
    /\ torn = TRUE
    /\ creating = {}
    /\ sending = {}
    /\ nextTxn = 1
    /\ hpc = "unborn"
    /\ cur = NoMsg
    /\ wpc = "unborn"
    /\ dpc = "load"
    /\ out = <<>>
    /\ markedAt = [h \in Handles |-> 0]
    /\ inflight = NooneInside

\* From the entry of init to g_atomic_int_set(&initialized, 1): the
\* configuration is read, the sockets are created (the values the three
\* create_ functions return are not looked at), the table and the queue are
\* created.
InitConfigure(env) ==
    /\ dpc = "load"
    /\ stopping = 0
    /\ out' = <<Call("init", 0, FALSE, FALSE, FALSE, env)>> \o
              (IF env.category THEN create_data_receiver(env) ELSE <<>>)
    /\ torn' = FALSE
    /\ initialized' = 1
    /\ dpc' = "watchdog"
    /\ UNCHANGED <<inflight, stopping, now, sess, sessions, old_sessions, messages, creating,
                   sending, nextTxn, hpc, cur, wpc, markedAt>>

\* g_thread_try_new of the watchdog.
InitLaunchWatchdog(ok) ==
    /\ dpc = "watchdog"
    /\ IF ok
       THEN /\ wpc' = "run"
            /\ dpc' = "handler"
            /\ out' = Append(out, Launched("skywayiot watchdog"))
            /\ UNCHANGED initialized
       ELSE /\ initialized' = 0
            /\ dpc' = "failed"
            /\ out' = Append(out, Returned(-1))
            /\ UNCHANGED wpc
    /\ UNCHANGED <<inflight, stopping, now, sess, sessions, old_sessions, messages, torn, creating,
                   sending, nextTxn, hpc, cur, markedAt>>

\* g_thread_try_new of the handler, and the return.
InitLaunchHandler(ok) ==
    /\ dpc = "handler"
    /\ IF ok
       THEN /\ hpc' = "top"
            /\ dpc' = "idle"
            /\ out' = out \o <<Launched("skywayiot handler"), Returned(0)>>
            /\ UNCHANGED initialized
       ELSE /\ initialized' = 0
            /\ dpc' = "failed"
            /\ out' = Append(out, Returned(-1))
            /\ UNCHANGED hpc
    /\ UNCHANGED <<inflight, stopping, now, sess, sessions, old_sessions, messages, torn, creating,
                   sending, nextTxn, cur, wpc, markedAt>>

PluginInit ==
    \/ \E env \in Environments : InitConfigure(env)
    \/ \E ok \in BOOLEAN : InitLaunchWatchdog(ok)
    \/ \E ok \in BOOLEAN : InitLaunchHandler(ok)

\* init, the threads it launches, and the sessions the gateway creates and
\* destroys once it has returned.
NextStartup ==
    \/ PluginInit
    \/ Watchdog
    \/ HandlerTop
    \/ \E h \in Handles : dpc = "idle" /\ CreateSessionEnter(h)
    \/ \E h \in Handles : CreateSessionInsert(h)
    \/ \E h \in Handles : dpc = "idle" /\ DestroySession(h)
    \/ Tick

StartupSpec == BeforeInit /\ [][NextStartup]_vars

\* ------------------------------------------------------------------------
\* The callbacks and the bridge listener, step by step
\*
\* In RaceSpec the gateway's threads are inside slow_link, hangup_media,
\* setup_media and query_session while destroy_session, the watchdog and the
\* clock run, and the bridge listener walks the table entry by entry. None of
\* these callbacks holds sessions_mutex. A read of a freed record gives any
\* value, a write to it is not kept. out is the log of relay_rtcp, push_event
\* and relay_data calls, in order.
\* ------------------------------------------------------------------------

\* Bound of the model: the callbacks a thread makes, the datagrams the
\* listener receives.
MaxCalls == 2

GatewayThreads == {"t1", "t2"}

Callbacks == {"slow_link", "hangup_media", "setup_media", "query_session"}

\* The first lines of a callback: the test of stopping and initialized
\* (slow_link tests handle->stopped too, which the core sets before it calls
\* destroy_session), and the read of handle->plugin_handle. A call that
\* fails the test returns at once and is left out. late records that
\* destroy_session had marked the session when the call was made.
CallbackEnter(t, op, h, uplink, video) ==
    /\ inflight[t].op = "none"
    /\ inflight[t].calls < MaxCalls
    /\ initialized = 1 /\ stopping = 0
    /\ op = "slow_link" => sess[h].destroyed = 0
    /\ inflight' = [inflight EXCEPT ![t] =
                      [Idle(inflight[t].calls + 1) EXCEPT
                          !.op = op, !.pc = "session", !.handle = h,
                          !.uplink = uplink, !.video = video,
                          !.late = (sess[h].destroyed # 0)]]
    /\ UNCHANGED <<initialized, stopping, now, sess, sessions, old_sessions, messages,
                   torn, creating, sending, nextTxn, hpc, cur, wpc, dpc, out, markedAt>>

Return(t) == [inflight EXCEPT ![t] = Idle(inflight[t].calls)]

\* if(!session) return; if(session->destroyed) return; query_session has no
\* test of destroyed, it reads the fields for its answer and returns.
CallbackSession(t) ==
    /\ inflight[t].pc = "session"
    /\ LET c == inflight[t]
       IN  \E d \in ReadDestroyed(c.handle) :
              inflight' = IF sess[c.handle].mem = "none" \/ c.op = "query_session" \/ d # 0
                          THEN Return(t)
                          ELSE [inflight EXCEPT ![t].pc = "act"]
    /\ UNCHANGED <<initialized, stopping, now, sess, sessions, old_sessions, messages,
                   torn, creating, sending, nextTxn, hpc, cur, wpc, dpc, out, markedAt>>

\* The rest of slow_link, from session->slowlink_count++ on.
SlowLinkAct(t) ==
    /\ inflight[t].pc = "act" /\ inflight[t].op = "slow_link"
    /\ LET c == inflight[t]
       IN  \E view \in SessionViews(c.handle) :
              LET r == SlowLinkEffect(view, c.handle, c.uplink, c.video)
              IN  /\ sess' = IF sess[c.handle].mem = "freed"
                             THEN sess
                             ELSE [sess EXCEPT ![c.handle] = r.s]
                  /\ out' = out \o r.outs
    /\ inflight' = Return(t)
    /\ UNCHANGED <<initialized, stopping, now, sessions, old_sessions, messages,
                   torn, creating, sending, nextTxn, hpc, cur, wpc, dpc, markedAt>>

\* What g_atomic_int_add reads as session->hangingup.
ReadHangingup(h) ==
    IF sess[h].mem = "freed" THEN {0, 1} ELSE {sess[h].hangingup}

\* if(g_atomic_int_add(&session->hangingup, 1)) return; a gint wraps.
HangupAdd(t) ==
    /\ inflight[t].pc = "act" /\ inflight[t].op = "hangup_media"
    /\ LET h == inflight[t].handle
       IN  /\ \E old \in ReadHangingup(h) :
                 inflight' = IF old # 0 THEN Return(t)
                             ELSE [inflight EXCEPT ![t].pc = "event"]
           /\ sess' = IF sess[h].mem = "freed"
                      THEN sess
                      ELSE [sess EXCEPT ![h].hangingup =
                               IF @ = 2147483647 THEN -2147483647 - 1 ELSE @ + 1]
    /\ UNCHANGED <<initialized, stopping, now, sessions, old_sessions, messages,
                   torn, creating, sending, nextTxn, hpc, cur, wpc, dpc, out, markedAt>>

\* The "done" event of hangup_media, pushed with a NULL transaction.
DoneEvent(h) == Event(h, 0, 0, "done", 0, "", NoJsep)

HangupEvent(t) ==
    /\ inflight[t].pc = "event"
    /\ out' = Append(out, DoneEvent(inflight[t].handle))
    /\ inflight' = [inflight EXCEPT ![t].pc = "reset"]
    /\ UNCHANGED <<initialized, stopping, now, sess, sessions, old_sessions, messages,
                   torn, creating, sending, nextTxn, hpc, cur, wpc, dpc, markedAt>>

\* HangupReset leaving the cap as it is.
HangupReset_KeepCap(t) ==
    /\ inflight[t].pc = "reset"
    /\ LET h == inflight[t].handle
       IN  sess' = IF sess[h].mem = "freed"
                   THEN sess
                   ELSE [sess EXCEPT ![h] =
                           [@ EXCEPT !.arc = FALSE, !.vrc = FALSE, !.drc = FALSE,
                                     !.has_audio = FALSE, !.has_video = FALSE,
                                     !.has_data = FALSE,
                                     !.audio_active = TRUE, !.video_active = TRUE]]
    /\ inflight' = Return(t)
    /\ UNCHANGED <<initialized, stopping, now, sessions, old_sessions, messages,
                   torn, creating, sending, nextTxn, hpc, cur, wpc, dpc, out, markedAt>>

\* The recorders are closed and freed, the controls reset.
HangupReset(t) ==
    /\ inflight[t].pc = "reset"
    /\ LET h == inflight[t].handle
       IN  sess' = IF sess[h].mem = "freed"
                   THEN sess
                   ELSE [sess EXCEPT ![h] =
                           [@ EXCEPT !.arc = FALSE, !.vrc = FALSE, !.drc = FALSE,
                                     !.has_audio = FALSE, !.has_video = FALSE,
                                     !.has_data = FALSE,
                                     !.audio_active = TRUE, !.video_active = TRUE,
                                     !.bitrate = 0]]
    /\ inflight' = Return(t)
    /\ UNCHANGED <<initialized, stopping, now, sessions, old_sessions, messages,
                   torn, creating, sending, nextTxn, hpc, cur, wpc, dpc, out, markedAt>>

\* The rest of setup_media: g_atomic_int_set(&session->hangingup, 0).
SetupMediaAct(t) ==
    /\ inflight[t].pc = "act" /\ inflight[t].op = "setup_media"
    /\ LET h == inflight[t].handle
       IN  sess' = IF sess[h].mem = "freed"
                   THEN sess
                   ELSE [sess EXCEPT ![h].hangingup = 0]
    /\ inflight' = Return(t)
    /\ UNCHANGED <<initialized, stopping, now, sessions, old_sessions, messages,
                   torn, creating, sending, nextTxn, hpc, cur, wpc, dpc, out, markedAt>>

\* recvfrom returns a datagram that is long enough and g_hash_table_foreach
\* starts its walk over the entries the table has, in some order.
BridgeReceive(chunk) ==
    /\ inflight["bridge"].op = "none"
    /\ inflight["bridge"].calls < MaxCalls
    /\ LongEnough(chunk)
    /\ \E order \in Orders(IF torn THEN {} ELSE sessions) :
          inflight' = [inflight EXCEPT !["bridge"] =
                         [Idle(@.calls + 1) EXCEPT
                             !.op = "recvfrom", !.pc = "walk",
                             !.id = SubSeq(chunk, 1, handle_id_len),
                             !.data = SubSeq(chunk, handle_id_len + 1, Len(chunk)),
                             !.todo = order]]
    /\ UNCHANGED <<initialized, stopping, now, sess, sessions, old_sessions, messages,
                   torn, creating, sending, nextTxn, hpc, cur, wpc, dpc, out, markedAt>>

\* relay_extern_data is called for the next entry of the walk. The walk
\* holds no lock: an entry that destroy_session has removed since the walk
\* began is visited or not.
BridgeVisit ==
    /\ inflight["bridge"].pc = "walk"
    /\ LET c == inflight["bridge"]
       IN  IF c.todo = <<>>
           THEN /\ inflight' = Return("bridge")
                /\ out' = out
           ELSE /\ inflight' = [inflight EXCEPT !["bridge"].todo = Tail(c.todo)]
                /\ \/ out' = out \o relay_extern_data(Head(c.todo), c.id, c.data)
                   \/ Head(c.todo) \notin sessions /\ out' = out
    /\ UNCHANGED <<initialized, stopping, now, sess, sessions, old_sessions, messages,
                   torn, creating, sending, nextTxn, hpc, cur, wpc, dpc, markedAt>>

\* The datagrams the external peer sends in RaceSpec.
RaceChunks == {HandleId(1) \o <<7>>, AllOnes \o <<7>>}

\* The plugin runs and handle 1 has a live session.
InitRace ==
    /\ initialized = 1
    /\ stopping = 0
    /\ now = 1
    /\ sess = [h \in Handles |-> IF h = 1 THEN NewSession ELSE NoSession]
    /\ sessions = {1}
    /\ old_sessions = <<>>
    /\ messages = <<>>
    /\ torn = FALSE
    /\ creating = {}
    /\ sending = {}
    /\ nextTxn = 1
    /\ hpc = "top"
    /\ cur = NoMsg
    /\ wpc = "run"
    /\ dpc = "idle"
    /\ out = <<>>
    /\ markedAt = [h \in Handles |-> 0]
    /\ inflight = NooneInside

\* The gateway's threads in the callbacks, destroy_session, the watchdog and
\* the clock.
NextRace ==
    \/ \E t \in GatewayThreads, op \in Callbacks, uplink \in BOOLEAN :
          CallbackEnter(t, op, 1, uplink, op = "slow_link")
    \/ \E t \in GatewayThreads : CallbackSession(t)
    \/ \E t \in GatewayThreads : SlowLinkAct(t)
    \/ \E t \in GatewayThreads : HangupAdd(t)
    \/ \E t \in GatewayThreads : HangupEvent(t)
    \/ \E t \in GatewayThreads : HangupReset(t)
    \/ \E t \in GatewayThreads : SetupMediaAct(t)
    \/ \E h \in Handles : DestroySession(h)
    \/ WatchdogPass
    \/ Tick

RaceSpec == InitRace /\ [][NextRace]_vars

\* The bridge listener's walk with create_session, destroy_session and the
\* shutdown of the plugin, which the worker and the watchdog take part in.
NextBridge ==
    \/ \E chunk \in RaceChunks : BridgeReceive(chunk)
    \/ BridgeVisit
    \/ \E h \in Handles : CreateSessionEnter(h)
    \/ \E h \in Handles : CreateSessionInsert(h)
    \/ \E h \in Handles : DestroySession(h)
    \/ HandlerTop
    \/ Watchdog
    \/ PluginDestroy

BridgeSpec == InitRace /\ [][NextBridge]_vars

\* ------------------------------------------------------------------------
\* Properties
\* ------------------------------------------------------------------------

\* The push_event calls answering a request.
IsResponse(o) == o.type = "event" /\ o.req # 0
Responses == {i \in 1..Len(out) : IsResponse(out[i])}
Answered(t) == \E i \in Responses : out[i].txn = t

\* The request reached the queue and the handler is through with it (or the
\* queue was freed with the request in it).
Finished(t) ==
    /\ t < nextTxn
    /\ cur.txn # t
    /\ \A i \in 1..Len(messages) : messages[i].txn # t

\* C1: for every request that reached the queue the handler calls push_event
\* at most once, with the transaction of that request and never that of
\* another, and the event is either the "ok" result (no error code) or an
\* error payload (one of the three error codes), never both.
C1_OneResponsePerRequest ==
    \A i \in Responses :
        /\ out[i].req \in 1..(nextTxn - 1)
        /\ out[i].txn = out[i].req
        /\ out[i].kind \in {"ok", "error"}
        /\ (out[i].kind = "ok") = (out[i].code = 0)
        /\ out[i].kind = "error" =>
               out[i].code \in {JANUS_SKYWAYIOT_ERROR_NO_MESSAGE,
                                JANUS_SKYWAYIOT_ERROR_INVALID_JSON,
                                JANUS_SKYWAYIOT_ERROR_INVALID_ELEMENT}
        /\ \A j \in Responses : j # i => out[j].req # out[i].req /\ out[j].txn # out[i].txn

\* Two requests were answered, one with "ok" and one with an error.
C1_Witness ==
    \E i, j \in Responses : out[i].kind = "ok" /\ out[j].kind = "error"

C3_ResponsesInQueueOrder ==
    \A i, j \in Responses :
        (i < j /\ out[i].handle = out[j].handle) => out[i].req < out[j].req

\* Two requests on one handle were both answered.
C3_Witness ==
    \E i, j \in Responses : i < j /\ out[i].handle = out[j].handle

\* The check an error cause names ("ok" for the success event).
CheckOfCause(cause) ==
    CASE cause = "" -> "ok"
      [] cause = "No message??" -> "body"
      [] cause = "JSON error: not an object" -> "object"
      [] cause = "Invalid value (audio should be a boolean)" -> "audio"
      [] cause = "Invalid value (video should be a boolean)" -> "video"
      [] cause = "Invalid value (bitrate should be a positive integer)" -> "bitrate"
      [] cause = "Invalid value (record should be a boolean)" -> "record"
      [] cause = "Invalid value (filename should be a string)" -> "filename"
      [] OTHER -> "attributes"

Outcome(e) == [code |-> e.code, check |-> CheckOfCause(e.cause)]
Decided(c, check) == [code |-> c, check |-> check]

BadBoolean(x) == json_present(x) /\ ~json_is_boolean(x)
BadBitrate(x) == json_present(x) /\ (~json_is_integer(x) \/ json_integer_value(x) < 0)
BadString(x) == json_present(x) /\ ~json_is_string(x)

\* The outcome by the claimed order of checks.
ClaimedOutcome(msg) ==
    LET root == msg.body
    IN  IF root.kind = "null" THEN Decided(411, "body")
        ELSE IF root.kind # "object" THEN Decided(412, "object")
        ELSE IF BadBoolean(root.audio) THEN Decided(413, "audio")
        ELSE IF BadBoolean(root.video) THEN Decided(413, "video")
        ELSE IF BadBitrate(root.bitrate) THEN Decided(413, "bitrate")
        ELSE IF /\ ~json_present(root.audio)
                /\ ~json_present(root.video)
                /\ ~json_present(root.bitrate)
                /\ ~msg.jsep.has_sdp
        THEN Decided(413, "attributes")
        ELSE Decided(0, "ok")

\* The claimed order with the checks of record and filename after that of
\* bitrate, and record counted among the attributes.
AmendedOutcome(msg) ==
    LET root == msg.body
    IN  IF root.kind = "null" THEN Decided(411, "body")
        ELSE IF root.kind # "object" THEN Decided(412, "object")
        ELSE IF BadBoolean(root.audio) THEN Decided(413, "audio")
        ELSE IF BadBoolean(root.video) THEN Decided(413, "video")
        ELSE IF BadBitrate(root.bitrate) THEN Decided(413, "bitrate")
        ELSE IF BadBoolean(root.record) THEN Decided(413, "record")
        ELSE IF BadString(root.filename) THEN Decided(413, "filename")
        ELSE IF /\ ~json_present(root.audio)
                /\ ~json_present(root.video)
                /\ ~json_present(root.bitrate)
                /\ ~json_present(root.record)
                /\ ~msg.jsep.has_sdp
        THEN Decided(413, "attributes")
        ELSE Decided(0, "ok")

\* The handler processes the request it holds and appends to out.
Processes == hpc = "process" /\ Len(out') > Len(out)
LastOut == out[Len(out)]

\* C4 (as claimed): the response to a request is decided by the first failing
\* check in the order: absent body 411, body not an object 412, non-boolean
\* audio 413, non-boolean video 413, bitrate not an integer or negative 413,
\* none of audio, video, bitrate and an SDP 413; a request passing them all
\* gets the "ok" result.
C4_ValidationOrder ==
    [][hpc = "process" =>
          /\ Len(out') > Len(out)
          /\ IsResponse(LastOut')
          /\ Outcome(LastOut') = ClaimedOutcome(cur)]_vars

\* C4 (amended): the order of checks is: absent body 411, body not an object
\* 412, non-boolean audio 413, non-boolean video 413, bitrate not an integer
\* or negative 413, non-boolean record 413, non-string filename 413, none of
\* audio, video, bitrate, record and an SDP 413; a request passing them all
\* gets the "ok" result.
C4_ValidationOrderWithRecord ==
    [][hpc = "process" =>
          /\ Len(out') > Len(out)
          /\ IsResponse(LastOut')
          /\ Outcome(LastOut') = AmendedOutcome(cur)]_vars

\* A request was refused by the check of record.
C4_Witness ==
    /\ hpc = "top"
    /\ out # <<>>
    /\ Outcome(LastOut) = Decided(JANUS_SKYWAYIOT_ERROR_INVALID_ELEMENT, "record")

\* C5: when a request is answered with an error, processing it changed no
\* field of any session and relayed no RTCP packet; the error event is all
\* that was appended to the calls made.
C5_ErrorHasNoEffect ==
    [][(Processes /\ LastOut'.kind = "error") =>
          /\ sess' = sess
          /\ out' = Append(out, LastOut')
          /\ LastOut'.type = "event"]_vars

\* A request was refused for its bitrate by a session whose audio is active.
C5_Witness ==
    /\ hpc = "top"
    /\ Len(out) = 1
    /\ out[1].kind = "error"
    /\ Outcome(out[1]).check = "bitrate"
    /\ sess[1].audio_active

\* C6: no session is both in the sessions table and in old_sessions; a
\* session in the table has destroyed equal to zero and a session in
\* old_sessions has destroyed non-zero.
C6_RegistryOrDeferred ==
    \A h \in Handles :
        /\ ~(h \in sessions /\ h \in Range(old_sessions))
        /\ h \in sessions => sess[h].destroyed = 0
        /\ h \in Range(old_sessions) => sess[h].destroyed # 0

\* One session is in the table while another waits in old_sessions.
C6_Witness ==
    \E h, g \in Handles : h \in sessions /\ g \in Range(old_sessions)

Count(seq, x) == Cardinality({i \in 1..Len(seq) : seq[i] = x})

Keep(seq, S) == SelectSeq(seq, LAMBDA x : x \in S)

\* C8: a session is freed, and leaves old_sessions, only in a step taken
\* with now - destroyed >= 5 seconds; an entry whose 5 seconds have not
\* passed stays in old_sessions, allocated; and when entries leave, those
\* that stay are the same and keep their order.
C8_WatchdogGrace ==
    [][\A h \in Handles :
          /\ (sess[h].mem = "alloc" /\ sess'[h].mem = "freed") =>
                 /\ h \in Range(old_sessions)
                 /\ now - sess[h].destroyed >= GraceInterval
          /\ (h \in Range(old_sessions) /\ h \notin Range(old_sessions')) =>
                 /\ now - sess[h].destroyed >= GraceInterval
                 /\ sess'[h].mem = "freed"
          /\ (h \in Range(old_sessions) /\ now - sess[h].destroyed < GraceInterval) =>
                 /\ h \in Range(old_sessions')
                 /\ sess'[h].mem = "alloc"
          /\ ~(Range(old_sessions) \subseteq Range(old_sessions')) =>
                 old_sessions' = Keep(old_sessions, Range(old_sessions'))]_vars

\* The watchdog has freed one session and left a younger entry in the list.
C8_Witness ==
    \E h, g \in Handles :
        /\ sess[h].mem = "freed"
        /\ g \in Range(old_sessions)
        /\ sess[g].mem = "alloc"
        /\ now - sess[g].destroyed < GraceInterval

\* C9 (as claimed): from the marking of a session by destroy_session at time
\* T until the watchdog frees it, query_session returns a snapshot whose
\* destroyed field is T, and the handle is not in the sessions table.
C9_DestroyedQueryable ==
    \A h \in Handles :
        h \in Range(old_sessions) =>
            /\ query_session(h).found
            /\ query_session(h).destroyed = markedAt[h]
            /\ h \notin sessions

\* C9 (amended): the same, with the snapshot promised only while the plugin
\* is initialized and not stopping.
C9_DestroyedQueryableWhileRunning ==
    \A h \in Handles :
        h \in Range(old_sessions) =>
            /\ Running => /\ query_session(h).found
                          /\ query_session(h).destroyed = markedAt[h]
            /\ h \notin sessions

\* A marked session is queried later than its marking, while the plugin runs.
C9_Witness ==
    \E h \in Handles :
        /\ h \in Range(old_sessions)
        /\ Running
        /\ now > markedAt[h]
        /\ query_session(h).destroyed = markedAt[h]

\* C10: while stopping is set or the plugin is not initialized, no step adds
\* a session to the sessions table and no step pushes a request onto the
\* messages queue.
C10_NothingAcceptedAfterStop ==
    [][(stopping = 1 \/ initialized = 0) =>
          /\ sessions' \subseteq sessions
          /\ \A i \in 1..Len(messages') :
                 (~messages'[i].exit) => \E k \in 1..Len(messages) : messages[k] = messages'[i]]_vars

\* C11: once janus_skywayiot_destroy has set stopping, the handler thread and
\* the watchdog thread both end, also when the queue holds nothing but
\* exit_message; and the teardown of the table and the queue is reached only
\* with both threads ended.
C11_ThreadsEndBeforeTeardown ==
    /\ [](dpc \in {"teardown", "done"} => (hpc = "done" /\ wpc = "done"))
    /\ (dpc # "idle") ~> (hpc = "done" /\ wpc = "done")

\* No request ever reached the queue, the handler took exit_message from it
\* and ended, the watchdog ended, and the teardown is next.
C11_Witness ==
    /\ dpc = "teardown"
    /\ nextTxn = 1
    /\ messages = <<>>
    /\ hpc = "done"
    /\ wpc = "done"

\* C12: when janus_skywayiot_destroy has returned, the sessions table and
\* old_sessions are both empty and no session record is still allocated.
C12_ShutdownFreesAll ==
    dpc = "done" =>
        /\ sessions = {}
        /\ old_sessions = <<>>
        /\ \A h \in Handles : sess[h].mem # "alloc"

\* The trace in out is that of a call of the callback op.
Called(op) == out # <<>> /\ out[1].type = "call" /\ out[1].op = op

\* What the callback did after it was called.
Did == Tail(out)

\* The plugin is running and the gateway has not stopped the handle of the call.
Served == initialized = 1 /\ stopping = 0 /\ ~out[1].stopped

\* The session of the call exists and is not marked destroyed.
CallOnLiveSession == sess[out[1].handle].mem # "none" /\ sess[out[1].handle].destroyed = 0

\* The active flag of the session that matches the media kind of the call.
MatchingActive ==
    IF out[1].video THEN sess[out[1].handle].video_active ELSE sess[out[1].handle].audio_active

\* C13, as stated: incoming_rtp writes the packet, unmodified, to the external
\* media socket if and only if the handle has a session whose destroyed time is
\* zero and whose active flag of the packet's kind is true; otherwise it
\* writes nothing.
C13_RtpRelayedIffActive ==
    Called("incoming_rtp") =>
        Did = (IF CallOnLiveSession /\ MatchingActive
               THEN <<Sendto("media", out[1].buf)>>
               ELSE <<>>)

\* C13, amended: the same, provided the plugin is initialized and not
\* stopping and the gateway has not stopped the handle; otherwise nothing is
\* written whatever the session.
C13_RtpRelayedIffActiveAndServed ==
    Called("incoming_rtp") =>
        Did = (IF Served /\ CallOnLiveSession /\ MatchingActive
               THEN <<Sendto("media", out[1].buf)>>
               ELSE <<>>)

\* An audio packet of a session with video off and audio on was written.
C13_Witness ==
    /\ Called("incoming_rtp") /\ Served /\ CallOnLiveSession
    /\ ~out[1].video
    /\ ~sess[out[1].handle].video_active /\ sess[out[1].handle].audio_active
    /\ Did = <<Sendto("media", out[1].buf)>>

Min(a, b) == IF a < b THEN a ELSE b

\* C14: every RTCP packet that incoming_rtcp hands to relay_rtcp goes to the
\* handle of the call with its media kind; when the session's cap c is positive
\* a REMB in it carries the minimum of the original estimate and c and nothing
\* else is changed, when the cap is 0 the packet is unchanged; and nothing is
\* relayed for a handle without a session or with a session marked destroyed.
C14_RtcpCapped ==
    Called("incoming_rtcp") =>
        LET c == out[1]
            cap == sess[c.handle].bitrate
        IN  /\ \A i \in DOMAIN Did :
                  /\ Did[i].type = "rtcp"
                  /\ Did[i].handle = c.handle
                  /\ Did[i].video = c.video
                  /\ Did[i].buf.has_remb = c.buf.has_remb
                  /\ Did[i].buf.bitrate =
                        (IF cap > 0 /\ c.buf.has_remb THEN Min(c.buf.bitrate, cap)
                         ELSE c.buf.bitrate)
            /\ ~CallOnLiveSession => Did = <<>>

\* A REMB above the cap of a live session was relayed with the cap.
C14_Witness ==
    /\ Called("incoming_rtcp") /\ CallOnLiveSession
    /\ out[1].buf.has_remb
    /\ sess[out[1].handle].bitrate > 0
    /\ out[1].buf.bitrate > sess[out[1].handle].bitrate
    /\ Len(Did) = 1
    /\ Did[1].buf.bitrate = sess[out[1].handle].bitrate

Max(a, b) == IF a > b THEN a ELSE b

\* This step is a call of slow_link that was served for the session of h.
SlowLinkStep(h) ==
    /\ Called("slow_link")'
    /\ out'[1].handle = h
    /\ sess'[h] # sess[h]

\* This step of slow_link adapted: it changed the cap or called the gateway.
Adapted(h) == Did' # <<>> \/ sess'[h].bitrate # sess[h].bitrate

\* The cap the claim gives for a previous cap b.
ClaimedCap(b) == Max(64 * 1024, (IF b = 0 THEN 512 * 1024 ELSE b) \div 2)

\* C15: a video congestion signal that triggers adaptation sets the cap to
\* max(64*1024, floor(b/2)) for a previous cap b > 0 and starts from 512*1024
\* when the previous cap is 0 (so 262144, 131072, 65536, 65536 from no cap),
\* and the REMB relayed and the slow_link notification both carry the new cap.
C15_SlowLinkHalves ==
    [][\A h \in Handles :
          (SlowLinkStep(h) /\ Adapted(h)) =>
              /\ out'[1].video
              /\ sess'[h].bitrate = ClaimedCap(sess[h].bitrate)
              /\ Did' = <<Rtcp(h, "remb", sess'[h].bitrate, 0),
                          SlowLinkEvent(h, sess'[h].bitrate)>>
              /\ sess[h].bitrate = 0 => sess'[h].bitrate = 262144
              /\ sess[h].bitrate = 262144 => sess'[h].bitrate = 131072
              /\ sess[h].bitrate \in {131072, 65536} => sess'[h].bitrate = 65536]_vars

\* The fourth signal in a row has adapted a session to the floor once more.
C15_Witness ==
    /\ Called("slow_link") /\ out[1].video
    /\ sess[out[1].handle].slowlink_count = 4
    /\ sess[out[1].handle].bitrate = 65536
    /\ Did = <<Rtcp(out[1].handle, "remb", 65536, 0), SlowLinkEvent(out[1].handle, 65536)>>

\* This step of slow_link changed nothing of the session of h but its
\* slowlink_count, and called nothing.
OnlyCounted(h) ==
    /\ Did' = <<>>
    /\ sess'[h].slowlink_count # sess[h].slowlink_count
    /\ [sess'[h] EXCEPT !.slowlink_count = sess[h].slowlink_count] = sess[h]

\* C16, as stated: a congestion signal takes no adaptive action (cap
\* unchanged, no REMB, no event, only slowlink_count changes) whenever it is an
\* audio signal or a signal for a direction whose active flag is false, for
\* both values of uplink.
C16_NoActionWhenInactive ==
    [][\A h \in Handles :
          (/\ SlowLinkStep(h)
           /\ \/ ~out'[1].video
              \/ out'[1].video /\ ~sess[h].video_active) => OnlyCounted(h)]_vars

\* C16, amended: no adaptive action whenever it is an audio signal (either
\* direction, audio active or not) or an uplink video signal while
\* video_active is false.
C16_NoActionWhenAudioOrUplinkInactive ==
    [][\A h \in Handles :
          (/\ SlowLinkStep(h)
           /\ \/ ~out'[1].video
              \/ out'[1].video /\ out'[1].uplink /\ ~sess[h].video_active) => OnlyCounted(h)]_vars

\* An uplink video signal on a session with video off was only counted.
C16_Witness ==
    /\ Called("slow_link") /\ Served /\ CallOnLiveSession
    /\ out[1].video /\ out[1].uplink
    /\ ~sess[out[1].handle].video_active
    /\ sess[out[1].handle].slowlink_count > 0
    /\ Did = <<>>

\* The sessions the bridge listener finds in the registry.
Registry == IF torn THEN {} ELSE sessions

\* The connection id and the payload of the chunk received.
FrameId == SubSeq(out[1].buf, 1, 8)
FramePayload == SubSeq(out[1].buf, 9, Len(out[1].buf))

\* The number of relay_data calls made for handle h.
RelayCount(h) == Cardinality({i \in DOMAIN Did : Did[i].type = "relay_data" /\ Did[i].handle = h})

\* The sessions the frame is addressed to.
Addressed(h) == h \in Registry /\ (FrameId = AllOnes \/ FrameId = HandleId(h))

\* C17, as stated: a bridge frame (a chunk that holds a connection id, 8 bytes
\* or more) with the all-ones id gives exactly one relay_data call for every
\* session in the registry, one with the id of a session in the registry gives
\* exactly one call, for that session only, and one that matches no session
\* gives none.
C17_FrameRouting ==
    (Called("recvfrom") /\ Len(out[1].buf) >= 8) =>
        \A h \in Handles : RelayCount(h) = (IF Addressed(h) THEN 1 ELSE 0)

\* C17, amended: the same for a frame that carries at least one byte of
\* payload after the connection id.
C17_FrameRoutingWithPayload ==
    (Called("recvfrom") /\ Len(out[1].buf) > 8) =>
        /\ \A h \in Handles : RelayCount(h) = (IF Addressed(h) THEN 1 ELSE 0)
        /\ \A i \in DOMAIN Did : Did[i].type = "relay_data"

\* A broadcast frame reached both sessions of the registry.
C17_Witness ==
    /\ Called("recvfrom") /\ Len(out[1].buf) > 8
    /\ FrameId = AllOnes
    /\ Registry = Handles
    /\ Len(Did) = 2
    /\ RelayCount(1) = 1 /\ RelayCount(2) = 1

\* C18, as stated: a chunk is dropped for its length if and only if it is
\* shorter than 8 bytes: every chunk of 8 or more bytes whose first 8 bytes
\* match a session of the registry or the broadcast id leads to relay_data with
\* exactly the remaining bytes, every shorter chunk to no call.
C18_DroppedIffShorterThan8 ==
    Called("recvfrom") =>
        /\ Len(out[1].buf) < 8 => Did = <<>>
        /\ Len(out[1].buf) >= 8 =>
              \A h \in Handles :
                  Addressed(h) => \E i \in DOMAIN Did : Did[i] = RelayData(h, FramePayload)

\* C18, amended: a chunk is dropped for its length if and only if it is 8
\* bytes or shorter: every chunk of 9 or more bytes that matches leads to
\* relay_data with exactly the bytes after the first 8, every chunk of 8 bytes
\* or fewer to no call.
C18_DroppedIffNoPayload ==
    Called("recvfrom") =>
        /\ Len(out[1].buf) <= 8 => Did = <<>>
        /\ Len(out[1].buf) > 8 =>
              \A h \in Handles :
                  Addressed(h) => \E i \in DOMAIN Did : Did[i] = RelayData(h, FramePayload)

\* A chunk of 10 bytes with the id of a session gave relay_data with its last
\* two bytes.
C18_Witness ==
    /\ Called("recvfrom") /\ Len(out[1].buf) = 10
    /\ FrameId = HandleId(2) /\ 2 \in Registry
    /\ Did = <<RelayData(2, <<out[1].buf[9], out[1].buf[10]>>)>>

\* The frame this step gives to the bridge listener is the one incoming_data
\* has just written for its handle, and the session of that handle is in the
\* registry.
FedBack ==
    /\ Called("incoming_data") /\ Did # <<>> /\ Did[1].type = "sendto"
    /\ Called("recvfrom")' /\ out'[1].buf = Did[1].buf
    /\ out[1].handle \in Registry'

\* C19, as stated: on a live session and a non-empty payload incoming_data
\* writes one frame, the 8 bytes of the handle followed by the payload
\* unchanged; that frame, fed back to the bridge while the session is in the
\* registry, delivers the same payload to that session and to no other; for a
\* destroyed or unknown session nothing is written.
C19_DataFrameRoundTrip ==
    /\ [](Called("incoming_data") =>
            /\ (CallOnLiveSession /\ out[1].buf # <<>>) =>
                   Did = <<Sendto("data", HandleId(out[1].handle) \o out[1].buf)>>
            /\ ~CallOnLiveSession => Did = <<>>)
    /\ [][FedBack => Did' = <<RelayData(out[1].handle, out[1].buf)>>]_vars

\* C19, amended: the same, for a call made while the plugin is initialized
\* and not stopping on a handle the gateway has not stopped.
C19_DataFrameRoundTripWhenServed ==
    /\ [](Called("incoming_data") =>
            /\ (Served /\ CallOnLiveSession /\ out[1].buf # <<>>) =>
                   Did = <<Sendto("data", HandleId(out[1].handle) \o out[1].buf)>>
            /\ ~CallOnLiveSession => Did = <<>>)
    /\ [][FedBack => Did' = <<RelayData(out[1].handle, out[1].buf)>>]_vars

\* Two bytes of data of handle 1 were written behind its id, with the
\* sessions of both handles in the registry.
C19_Witness ==
    /\ Called("incoming_data") /\ out[1].handle = 1 /\ out[1].buf = <<7, 9>>
    /\ Registry = Handles
    /\ Did = <<Sendto("data", <<1, 0, 0, 0, 0, 0, 0, 0, 7, 9>>)>>

\* C20: the ok response to a request with a negotiation payload carries a
\* payload of the inverse type (offer gives answer, answer gives offer) and
\* has_audio, has_video and has_data of the session are set from the presence
\* of the audio, video and data sections in the request's description; a
\* request without a negotiation payload gets an ok response with no payload
\* and leaves the three flags as they were.
C20_NegotiationInverted ==
    [][(Processes /\ LastOut'.kind = "ok") =>
          LET h == cur.handle
              j == cur.jsep
          IN  IF j.has_sdp
              THEN /\ LastOut'.jsep.has_sdp
                   /\ j.type = "offer" => LastOut'.jsep.type = "answer"
                   /\ j.type = "answer" => LastOut'.jsep.type = "offer"
                   /\ sess'[h].has_audio = Contains(j.sdp, "m=audio")
                   /\ sess'[h].has_video = Contains(j.sdp, "m=video")
                   /\ sess'[h].has_data = Contains(j.sdp, "DTLS/SCTP")
              ELSE /\ LastOut'.jsep = NoJsep
                   /\ sess'[h].has_audio = sess[h].has_audio
                   /\ sess'[h].has_video = sess[h].has_video
                   /\ sess'[h].has_data = sess[h].has_data]_vars

\* An answer with a video and a data section was answered ok with an offer.
C20_Witness ==
    /\ hpc = "top"
    /\ Len(out) > 0
    /\ LastOut.kind = "ok"
    /\ LastOut.jsep.has_sdp /\ LastOut.jsep.type = "offer"
    /\ sess[1].has_video /\ sess[1].has_data /\ ~sess[1].has_audio

\* The direction attributes of a description, in order.
IsDirection(line) == line \in {"a=recvonly", "a=sendonly", "a=inactive", "a=sendrecv"}
DirectionsOf(sdp) == SelectSeq(sdp, IsDirection)

\* The direction the claim gives for a direction of the request.
Bounced(line) ==
    CASE line = "a=recvonly" -> "a=inactive"
      [] line = "a=sendonly" -> "a=recvonly"
      [] OTHER -> line

\* out[i] is the delivery of a request with a description and out[i + 1] its
\* ok response.
Negotiated(i) ==
    /\ i + 1 <= Len(out)
    /\ out[i].type = "call" /\ out[i].op = "handle_message"
    /\ out[i + 1].type = "event" /\ out[i + 1].kind = "ok"

\* C21: in the description returned with a response every a=recvonly of the
\* request's description has become a=inactive and every a=sendonly has become
\* a=recvonly, for every description, also one that holds both.
C21_DirectionsBounced ==
    \A i \in DOMAIN out :
        Negotiated(i) =>
            /\ out[i + 1].jsep.has_sdp
            /\ DirectionsOf(out[i + 1].jsep.sdp) =
                  [k \in DOMAIN DirectionsOf(out[i].buf.sdp) |->
                      Bounced(DirectionsOf(out[i].buf.sdp)[k])]

\* C22, as stated: for every offer that contains a=recvonly the rewrite gives
\* a description with a=inactive and without a=recvonly, and the rewrite of
\* that description gives it back unchanged.
C22_RewriteIdempotent ==
    (Negotiated(1) /\ out[1].buf.type = "offer" /\ Contains(out[1].buf.sdp, "a=recvonly")) =>
        /\ Contains(out[2].jsep.sdp, "a=inactive")
        /\ ~Contains(out[2].jsep.sdp, "a=recvonly")
        /\ Negotiated(3) => (out[3].buf.sdp = out[2].jsep.sdp /\ out[4].jsep.sdp = out[2].jsep.sdp)

\* C22, amended: the same for every offer that contains a=recvonly and no
\* a=sendonly.
C22_RewriteIdempotentWithoutSendonly ==
    (/\ Negotiated(1) /\ out[1].buf.type = "offer"
     /\ Contains(out[1].buf.sdp, "a=recvonly")
     /\ ~Contains(out[1].buf.sdp, "a=sendonly")) =>
        /\ Contains(out[2].jsep.sdp, "a=inactive")
        /\ ~Contains(out[2].jsep.sdp, "a=recvonly")
        /\ Negotiated(3) => (out[3].buf.sdp = out[2].jsep.sdp /\ out[4].jsep.sdp = out[2].jsep.sdp)

\* An offer with a=recvonly and FEC lines was rewritten twice.
C22_Witness ==
    /\ Negotiated(1) /\ Negotiated(3)
    /\ out[1].buf.type = "offer"
    /\ out[1].buf.sdp = <<"a=recvonly", "a=rtpmap:117 ulpfec/90000", " 96">>
    /\ out[2].jsep.sdp = <<"a=inactive">>
    /\ out[4].jsep.sdp = <<"a=inactive">>

\* init has returned.
InitReturned == dpc \in {"idle", "failed"}

\* What made the initialization fail, according to the claim: the listener
\* socket of a configured external interface could not be bound, or a launch
\* of the watchdog or of the handler failed.
BindFailed == out # <<>> /\ out[1].type = "call" /\ out[1].buf.category /\ ~out[1].buf.bind
LaunchFailed == InitReturned /\ (wpc = "unborn" \/ hpc = "unborn")

ListenerRunning ==
    \E i \in DOMAIN out : out[i] = Launched("skywayiot_data_thread")

\* C23: if the initialization fails because the inbound listener cannot be
\* bound or because the watchdog or the handler cannot be launched, init
\* returns failure, the plugin is not marked initialized, and no thread of the
\* plugin is left running (the watchdog, if launched, has ended or is about to
\* leave its loop; the handler and the bridge listener do not run).
C23_FailedInitLeavesNothing ==
    (InitReturned /\ (BindFailed \/ LaunchFailed)) =>
        /\ out[Len(out)] = Returned(-1)
        /\ initialized = 0
        /\ ~ListenerRunning
        /\ hpc \in {"unborn", "done"}
        /\ wpc \in {"unborn", "done"} \/ ~(initialized = 1 /\ stopping = 0)

\* The calls this step of the handler has added to out.
Added == SubSeq(out', Len(out) + 1, Len(out'))

\* The positions in Added of the relay_rtcp calls of a kind.
RtcpAt(kind) == {i \in DOMAIN Added : Added[i].type = "rtcp" /\ Added[i].kind = kind}

\* This step answers a valid request ok.
AnswersOk == Processes /\ LastOut'.kind = "ok"

\* What the claim of C27 says of this step.
PliIffVideoEnabled ==
    LET h == cur.handle
        enabling == ~sess[h].video_active /\ json_is_true(cur.body.video)
    IN  /\ RtcpAt("pli") # {} <=> enabling
        /\ Cardinality(RtcpAt("pli")) <= 1
        /\ \A i \in RtcpAt("pli") : Added[i].handle = h /\ i < Len(Added)
        /\ Added[Len(Added)].type = "event"
        /\ sess'[h].video_active = json_is_true(cur.body.video)

C28_BitrateAndRemb ==
    [][AnswersOk =>
          LET h == cur.handle
              b == json_integer_value(cur.body.bitrate)
          IN  IF json_present(cur.body.bitrate)
              THEN /\ sess'[h].bitrate = b
                   /\ Cardinality(RtcpAt("remb")) = (IF b > 0 THEN 1 ELSE 0)
                   /\ \A i \in RtcpAt("remb") :
                         Added[i].bitrate = b /\ Added[i].handle = h /\ i < Len(Added)
                   /\ Added[Len(Added)].type = "event"
              ELSE /\ sess'[h].bitrate = sess[h].bitrate
                   /\ RtcpAt("remb") = {}]_vars

\* A request with bitrate 2 was answered with a REMB of 2 first.
C28_Witness ==
    /\ hpc = "top"
    /\ Len(out) = 2
    /\ out[1].type = "rtcp" /\ out[1].kind = "remb" /\ out[1].bitrate = 2
    /\ out[2].type = "event" /\ out[2].kind = "ok"
    /\ sess[1].bitrate = 2

\* The session of h waits in old_sessions and its grace interval is over.
Overdue(h) == h \in Range(old_sessions) /\ now - sess[h].destroyed >= GraceInterval

\* C26: as long as the plugin keeps running, a session marked destroyed whose
\* grace interval has passed is eventually removed from old_sessions and
\* freed by the watchdog, under fair scheduling of the watchdog; and a pass of
\* the watchdog that removes an entry leaves no entry behind whose grace
\* interval has passed.
C26_OverdueSessionsFreed ==
    /\ \A h \in Handles :
          Overdue(h) ~> ((sess[h].mem = "freed" /\ h \notin Range(old_sessions)) \/ ~Running)
    /\ [][Len(old_sessions') < Len(old_sessions) =>
             \A h \in Range(old_sessions') : now - sess[h].destroyed < GraceInterval]_vars

\* Both sessions were destroyed, the older was freed, the younger waits.
C26_Witness ==
    /\ Running
    /\ sess[1].mem = "freed" /\ sess[2].mem = "alloc"
    /\ old_sessions = <<2>>
    /\ sess[2].destroyed > sess[1].destroyed
    /\ now - sess[2].destroyed < GraceInterval

\* ------------------------------------------------------------------------
\* C24 .. C25, C29 .. C30: the callbacks and the listener against destruction
\* ------------------------------------------------------------------------

\* The positions at which a callback reads or writes the session record next.
AtRecord == {"session", "act", "reset"}

\* C24: no operation reads or writes a session record after the watchdog
\* has freed it: no callback of the gateway is about to read or write a
\* freed record, whenever the call arrived, and the control worker is not
\* about to read the record of a message whose session has been freed.
C24_NoAccessAfterFree ==
    /\ \A t \in GatewayThreads :
          inflight[t].pc \in AtRecord => sess[inflight[t].handle].mem # "freed"
    /\ hpc \in {"check", "process"} => sess[cur.handle].mem # "freed"

\* The calls of the gateway that out logs for handle h.
EmittedFor(h) == SelectSeq(out, LAMBDA e : e.handle = h)

\* C25: once destroy_session has marked a session, no field of its record
\* is modified and no event or RTCP is emitted on its behalf until the
\* watchdog frees it, also by a call that had passed its test of destroyed
\* before the mark.
C25_DestroyedIsImmutable ==
    [][\A h \in Handles :
          (sess[h].mem = "alloc" /\ sess[h].destroyed # 0 /\ sess'[h].mem = "alloc")
             => (sess'[h] = sess[h] /\ EmittedFor(h)' = EmittedFor(h))]_vars

\* Thread t passes the test of hangingup and begins the hangup sequence.
HangupStarts(t) ==
    /\ inflight[t].op = "hangup_media" /\ inflight[t].pc = "act"
    /\ inflight'[t].pc = "event"

\* The step re-arms the hangup of handle h: setup_media sets hangingup to 0,
\* the worker does after a negotiation, a new session starts with 0.
Rearms(h) ==
    \/ \E t \in GatewayThreads :
          /\ inflight[t].op = "setup_media" /\ inflight[t].pc = "act"
          /\ inflight[t].handle = h /\ inflight'[t].op = "none"
    \/ hpc = "process" /\ cur.handle = h
    \/ sess[h].mem # "alloc"

\* C29: the hangup sequence runs at most once between two re-arming points:
\* a call begins it only if hangingup was 0 and leaves hangingup non-zero,
\* only a re-arming step brings hangingup back to 0, and a hangup_media
\* call made on a destroyed session never gets to the "done" event.
C29_HangupOncePerArming ==
    /\ [][/\ \A t \in GatewayThreads :
                HangupStarts(t) =>
                   /\ sess[inflight[t].handle].hangingup = 0
                   /\ sess'[inflight[t].handle].hangingup # 0
          /\ \A h \in Handles :
                (sess[h].hangingup # 0 /\ sess'[h].hangingup = 0) => Rearms(h)]_vars
    /\ [](\A t \in GatewayThreads :
             (inflight[t].op = "hangup_media" /\ inflight[t].late)
                => inflight[t].pc \notin {"event", "reset"})

\* The entries relay_data adds to out in this step.
RelayedNow ==
    IF Len(out') > Len(out) /\ SubSeq(out', 1, Len(out)) = out
    THEN {out'[i].handle : i \in {j \in Len(out) + 1 .. Len(out') : out'[j].type = "relay_data"}}
    ELSE {}

\* C30: the listener calls relay_data only for a handle that is in the
\* table and whose session destroy_session has not marked.
C30_RelayOnlyToRegistered ==
    [][\A h \in RelayedNow : h \in sessions /\ ~torn /\ sess[h].destroyed = 0]_vars

\* ------------------------------------------------------------------------
\* C31 .. C32: the counter and the cap under congestion signals
\* ------------------------------------------------------------------------

\* This step is a call of slow_link for the live session of h that passed
\* the tests of the handle and the plugin.
SlowLinkServed(h) ==
    /\ inflight'["t1"].calls = inflight["t1"].calls + 1
    /\ Called("slow_link")'
    /\ out'[1].handle = h /\ ~out'[1].stopped
    /\ LiveSession(h)

\* C31: slowlink_count never decreases: every slow_link call for a live
\* session increases by exactly one the count that query_session reports,
\* whatever the count was.
C31_CountGrowsByOne ==
    [][\A h \in Handles :
          SlowLinkServed(h) =>
             query_session(h).slowlink_count' = query_session(h).slowlink_count + 1]_vars

\* C32, as stated: a video congestion signal never leaves the cap higher
\* than a non-zero cap that was in force before it.
C32_CapNeverRises ==
    [][\A h \in Handles :
          (SlowLinkServed(h) /\ out'[1].video /\ sess[h].bitrate > 0)
             => sess'[h].bitrate <= sess[h].bitrate]_vars

\* C32, amended: a video congestion signal never leaves the cap higher than
\* a cap of at least 64*1024 that was in force before it.
C32_CapNeverRisesFromFloorUp ==
    [][\A h \in Handles :
          (SlowLinkServed(h) /\ out'[1].video /\ sess[h].bitrate >= 64 * 1024)
             => sess'[h].bitrate <= sess[h].bitrate]_vars

\* A video signal has halved a cap of 300000 and a second one has halved
\* the 150000 that the first left.
C32_Witness ==
    /\ Called("slow_link") /\ Served /\ CallOnLiveSession
    /\ out[1].video
    /\ sess[out[1].handle].bitrate = 75000
    /\ Did = <<Rtcp(out[1].handle, "remb", 75000, 0), SlowLinkEvent(out[1].handle, 75000)>>

\* ------------------------------------------------------------------------
\* C33: what the hangup sequence does to a live session
\* ------------------------------------------------------------------------

\* Thread t pushes the event of its hangup sequence in this step.
HangupPushes(t) == inflight[t].pc = "event" /\ inflight'[t].pc = "reset"

\* Thread t ends its hangup sequence in this step.
HangupResets(t) == inflight[t].pc = "reset" /\ inflight'[t].op = "none"

\* The session of h is allocated and not marked destroyed.
Live(h) == sess[h].mem = "alloc" /\ sess[h].destroyed = 0

\* out has a "done" event without a transaction for h.
DonePushed(h) ==
    \E i \in DOMAIN out :
       /\ out[i].type = "event" /\ out[i].kind = "done"
       /\ out[i].handle = h /\ out[i].txn = 0

\* C33: the hangup sequence of a live session pushes one "done" event
\* without a transaction and nothing else, then resets the controls to what
\* create_session sets (audio_active, video_active TRUE, bitrate 0, has_audio,
\* has_video, has_data FALSE), and it leaves slowlink_count, destroyed and
\* the table as they are.
C33_HangupResetsControls ==
    /\ [][\A t \in GatewayThreads :
             LET h == inflight[t].handle
             IN  /\ (HangupPushes(t) /\ Live(h)) =>
                       /\ Len(out') = Len(out) + 1
                       /\ SubSeq(out', 1, Len(out)) = out
                       /\ ~DonePushed(h) => DonePushed(h)'
                       /\ out'[Len(out')].type = "event" /\ out'[Len(out')].kind = "done"
                       /\ out'[Len(out')].handle = h /\ out'[Len(out')].txn = 0
                       /\ sess' = sess
                       /\ sessions' = sessions /\ old_sessions' = old_sessions
                 /\ (HangupResets(t) /\ Live(h)) =>
                       /\ out' = out
                       /\ sess'[h].audio_active = NewSession.audio_active
                       /\ sess'[h].video_active = NewSession.video_active
                       /\ sess'[h].bitrate = NewSession.bitrate
                       /\ sess'[h].has_audio = NewSession.has_audio
                       /\ sess'[h].has_video = NewSession.has_video
                       /\ sess'[h].has_data = NewSession.has_data
                       /\ sess'[h].slowlink_count = sess[h].slowlink_count
                       /\ sess'[h].destroyed = sess[h].destroyed
                       /\ sess'[h].mem = sess[h].mem
                       /\ sessions' = sessions /\ old_sessions' = old_sessions]_vars
    /\ [](\A t \in GatewayThreads :
             inflight[t].pc = "reset" => DonePushed(inflight[t].handle))

\* Both threads are back from their calls, a congestion signal had given
\* the live session of handle 1 a cap and a count, and a hangup sequence
\* that came after it has pushed "done" and put the cap back to 0.
C33_Witness ==
    /\ \A t \in GatewayThreads : inflight[t].op = "none"
    /\ Live(1) /\ 1 \in sessions
    /\ sess[1].slowlink_count = 1
    /\ sess[1].bitrate = 0
    /\ sess[1].hangingup = 1
    /\ Len(out) = 3
    /\ out[1].type = "rtcp" /\ out[3].kind = "done"

====
